---- MODULE Spec2Model ----
(***************************************************************************)
(* Model of the two sync scripts of agritracer_data_fetch:                 *)
(*   main.py     harvest sync     (REST API  -> table harvests)            *)
(*   get_tvn.py  daily totals sync (Supabase -> table tracefruit_harvest)  *)
(* Text is modelled as a sequence of one-character strings, so that the    *)
(* strptime / strftime conversions are computed, not assumed.              *)
(***************************************************************************)
EXTENDS Integers, Sequences, FiniteSets, TLC

(***************************************************************************)
(* Bounds of the model.                                                    *)
(***************************************************************************)
MaxRows == 2    \* longest batch the source returns in one run
MaxBatch == 21  \* longest batch of the runs that watch the progress output
MaxShared == 2  \* longest batch of each of two invocations that run at the same time
MaxClock == 1   \* largest value of the destination server's clock

(***************************************************************************)
(* Text helpers.                                                           *)
(***************************************************************************)
\* the one element of a singleton set; {f(v) : v \in {e}} evaluates e once
The(S) == CHOOSE x \in S : TRUE

\* the digits of ASCII: what a class such as [0-9] or [1-9] is made of, and
\* what strftime writes
DigitChars == <<"0", "1", "2", "3", "4", "5", "6", "7", "8", "9">>

\* the other characters the \d of a regular expression on str matches, each
\* with its value: the decimal digits of Unicode outside ASCII, ten to a
\* script, each row in the order of its values 0..9; the characters are
\* written by their code points
UnicodeDigits ==
    The({[c \in {rows[b][k] : b \in 1..Len(rows), k \in 1..10} |->
            CHOOSE v \in 0..9 : \E b \in 1..Len(rows) : rows[b][v + 1] = c] :
         rows \in {
            << <<"U+0660", "U+0661", "U+0662", "U+0663", "U+0664", "U+0665", "U+0666", "U+0667", "U+0668", "U+0669">>,
               <<"U+06F0", "U+06F1", "U+06F2", "U+06F3", "U+06F4", "U+06F5", "U+06F6", "U+06F7", "U+06F8", "U+06F9">>,
               <<"U+07C0", "U+07C1", "U+07C2", "U+07C3", "U+07C4", "U+07C5", "U+07C6", "U+07C7", "U+07C8", "U+07C9">>,
               <<"U+0966", "U+0967", "U+0968", "U+0969", "U+096A", "U+096B", "U+096C", "U+096D", "U+096E", "U+096F">>,
               <<"U+09E6", "U+09E7", "U+09E8", "U+09E9", "U+09EA", "U+09EB", "U+09EC", "U+09ED", "U+09EE", "U+09EF">>,
               <<"U+0A66", "U+0A67", "U+0A68", "U+0A69", "U+0A6A", "U+0A6B", "U+0A6C", "U+0A6D", "U+0A6E", "U+0A6F">>,
               <<"U+0AE6", "U+0AE7", "U+0AE8", "U+0AE9", "U+0AEA", "U+0AEB", "U+0AEC", "U+0AED", "U+0AEE", "U+0AEF">>,
               <<"U+0B66", "U+0B67", "U+0B68", "U+0B69", "U+0B6A", "U+0B6B", "U+0B6C", "U+0B6D", "U+0B6E", "U+0B6F">>,
               <<"U+0BE6", "U+0BE7", "U+0BE8", "U+0BE9", "U+0BEA", "U+0BEB", "U+0BEC", "U+0BED", "U+0BEE", "U+0BEF">>,
               <<"U+0C66", "U+0C67", "U+0C68", "U+0C69", "U+0C6A", "U+0C6B", "U+0C6C", "U+0C6D", "U+0C6E", "U+0C6F">>,
               <<"U+0CE6", "U+0CE7", "U+0CE8", "U+0CE9", "U+0CEA", "U+0CEB", "U+0CEC", "U+0CED", "U+0CEE", "U+0CEF">>,
               <<"U+0D66", "U+0D67", "U+0D68", "U+0D69", "U+0D6A", "U+0D6B", "U+0D6C", "U+0D6D", "U+0D6E", "U+0D6F">>,
               <<"U+0DE6", "U+0DE7", "U+0DE8", "U+0DE9", "U+0DEA", "U+0DEB", "U+0DEC", "U+0DED", "U+0DEE", "U+0DEF">>,
               <<"U+0E50", "U+0E51", "U+0E52", "U+0E53", "U+0E54", "U+0E55", "U+0E56", "U+0E57", "U+0E58", "U+0E59">>,
               <<"U+0ED0", "U+0ED1", "U+0ED2", "U+0ED3", "U+0ED4", "U+0ED5", "U+0ED6", "U+0ED7", "U+0ED8", "U+0ED9">>,
               <<"U+0F20", "U+0F21", "U+0F22", "U+0F23", "U+0F24", "U+0F25", "U+0F26", "U+0F27", "U+0F28", "U+0F29">>,
               <<"U+1040", "U+1041", "U+1042", "U+1043", "U+1044", "U+1045", "U+1046", "U+1047", "U+1048", "U+1049">>,
               <<"U+1090", "U+1091", "U+1092", "U+1093", "U+1094", "U+1095", "U+1096", "U+1097", "U+1098", "U+1099">>,
               <<"U+17E0", "U+17E1", "U+17E2", "U+17E3", "U+17E4", "U+17E5", "U+17E6", "U+17E7", "U+17E8", "U+17E9">>,
               <<"U+1810", "U+1811", "U+1812", "U+1813", "U+1814", "U+1815", "U+1816", "U+1817", "U+1818", "U+1819">>,
               <<"U+1946", "U+1947", "U+1948", "U+1949", "U+194A", "U+194B", "U+194C", "U+194D", "U+194E", "U+194F">>,
               <<"U+19D0", "U+19D1", "U+19D2", "U+19D3", "U+19D4", "U+19D5", "U+19D6", "U+19D7", "U+19D8", "U+19D9">>,
               <<"U+1A80", "U+1A81", "U+1A82", "U+1A83", "U+1A84", "U+1A85", "U+1A86", "U+1A87", "U+1A88", "U+1A89">>,
               <<"U+1A90", "U+1A91", "U+1A92", "U+1A93", "U+1A94", "U+1A95", "U+1A96", "U+1A97", "U+1A98", "U+1A99">>,
               <<"U+1B50", "U+1B51", "U+1B52", "U+1B53", "U+1B54", "U+1B55", "U+1B56", "U+1B57", "U+1B58", "U+1B59">>,
               <<"U+1BB0", "U+1BB1", "U+1BB2", "U+1BB3", "U+1BB4", "U+1BB5", "U+1BB6", "U+1BB7", "U+1BB8", "U+1BB9">>,
               <<"U+1C40", "U+1C41", "U+1C42", "U+1C43", "U+1C44", "U+1C45", "U+1C46", "U+1C47", "U+1C48", "U+1C49">>,
               <<"U+1C50", "U+1C51", "U+1C52", "U+1C53", "U+1C54", "U+1C55", "U+1C56", "U+1C57", "U+1C58", "U+1C59">>,
               <<"U+A620", "U+A621", "U+A622", "U+A623", "U+A624", "U+A625", "U+A626", "U+A627", "U+A628", "U+A629">>,
               <<"U+A8D0", "U+A8D1", "U+A8D2", "U+A8D3", "U+A8D4", "U+A8D5", "U+A8D6", "U+A8D7", "U+A8D8", "U+A8D9">>,
               <<"U+A900", "U+A901", "U+A902", "U+A903", "U+A904", "U+A905", "U+A906", "U+A907", "U+A908", "U+A909">>,
               <<"U+A9D0", "U+A9D1", "U+A9D2", "U+A9D3", "U+A9D4", "U+A9D5", "U+A9D6", "U+A9D7", "U+A9D8", "U+A9D9">>,
               <<"U+A9F0", "U+A9F1", "U+A9F2", "U+A9F3", "U+A9F4", "U+A9F5", "U+A9F6", "U+A9F7", "U+A9F8", "U+A9F9">>,
               <<"U+AA50", "U+AA51", "U+AA52", "U+AA53", "U+AA54", "U+AA55", "U+AA56", "U+AA57", "U+AA58", "U+AA59">>,
               <<"U+ABF0", "U+ABF1", "U+ABF2", "U+ABF3", "U+ABF4", "U+ABF5", "U+ABF6", "U+ABF7", "U+ABF8", "U+ABF9">>,
               <<"U+FF10", "U+FF11", "U+FF12", "U+FF13", "U+FF14", "U+FF15", "U+FF16", "U+FF17", "U+FF18", "U+FF19">>,
               <<"U+104A0", "U+104A1", "U+104A2", "U+104A3", "U+104A4", "U+104A5", "U+104A6", "U+104A7", "U+104A8", "U+104A9">>,
               <<"U+10D30", "U+10D31", "U+10D32", "U+10D33", "U+10D34", "U+10D35", "U+10D36", "U+10D37", "U+10D38", "U+10D39">>,
               <<"U+11066", "U+11067", "U+11068", "U+11069", "U+1106A", "U+1106B", "U+1106C", "U+1106D", "U+1106E", "U+1106F">>,
               <<"U+110F0", "U+110F1", "U+110F2", "U+110F3", "U+110F4", "U+110F5", "U+110F6", "U+110F7", "U+110F8", "U+110F9">>,
               <<"U+11136", "U+11137", "U+11138", "U+11139", "U+1113A", "U+1113B", "U+1113C", "U+1113D", "U+1113E", "U+1113F">>,
               <<"U+111D0", "U+111D1", "U+111D2", "U+111D3", "U+111D4", "U+111D5", "U+111D6", "U+111D7", "U+111D8", "U+111D9">>,
               <<"U+112F0", "U+112F1", "U+112F2", "U+112F3", "U+112F4", "U+112F5", "U+112F6", "U+112F7", "U+112F8", "U+112F9">>,
               <<"U+11450", "U+11451", "U+11452", "U+11453", "U+11454", "U+11455", "U+11456", "U+11457", "U+11458", "U+11459">>,
               <<"U+114D0", "U+114D1", "U+114D2", "U+114D3", "U+114D4", "U+114D5", "U+114D6", "U+114D7", "U+114D8", "U+114D9">>,
               <<"U+11650", "U+11651", "U+11652", "U+11653", "U+11654", "U+11655", "U+11656", "U+11657", "U+11658", "U+11659">>,
               <<"U+116C0", "U+116C1", "U+116C2", "U+116C3", "U+116C4", "U+116C5", "U+116C6", "U+116C7", "U+116C8", "U+116C9">>,
               <<"U+11730", "U+11731", "U+11732", "U+11733", "U+11734", "U+11735", "U+11736", "U+11737", "U+11738", "U+11739">>,
               <<"U+118E0", "U+118E1", "U+118E2", "U+118E3", "U+118E4", "U+118E5", "U+118E6", "U+118E7", "U+118E8", "U+118E9">>,
               <<"U+11950", "U+11951", "U+11952", "U+11953", "U+11954", "U+11955", "U+11956", "U+11957", "U+11958", "U+11959">>,
               <<"U+11C50", "U+11C51", "U+11C52", "U+11C53", "U+11C54", "U+11C55", "U+11C56", "U+11C57", "U+11C58", "U+11C59">>,
               <<"U+11D50", "U+11D51", "U+11D52", "U+11D53", "U+11D54", "U+11D55", "U+11D56", "U+11D57", "U+11D58", "U+11D59">>,
               <<"U+11DA0", "U+11DA1", "U+11DA2", "U+11DA3", "U+11DA4", "U+11DA5", "U+11DA6", "U+11DA7", "U+11DA8", "U+11DA9">>,
               <<"U+16A60", "U+16A61", "U+16A62", "U+16A63", "U+16A64", "U+16A65", "U+16A66", "U+16A67", "U+16A68", "U+16A69">>,
               <<"U+16AC0", "U+16AC1", "U+16AC2", "U+16AC3", "U+16AC4", "U+16AC5", "U+16AC6", "U+16AC7", "U+16AC8", "U+16AC9">>,
               <<"U+16B50", "U+16B51", "U+16B52", "U+16B53", "U+16B54", "U+16B55", "U+16B56", "U+16B57", "U+16B58", "U+16B59">>,
               <<"U+1D7CE", "U+1D7CF", "U+1D7D0", "U+1D7D1", "U+1D7D2", "U+1D7D3", "U+1D7D4", "U+1D7D5", "U+1D7D6", "U+1D7D7">>,
               <<"U+1D7D8", "U+1D7D9", "U+1D7DA", "U+1D7DB", "U+1D7DC", "U+1D7DD", "U+1D7DE", "U+1D7DF", "U+1D7E0", "U+1D7E1">>,
               <<"U+1D7E2", "U+1D7E3", "U+1D7E4", "U+1D7E5", "U+1D7E6", "U+1D7E7", "U+1D7E8", "U+1D7E9", "U+1D7EA", "U+1D7EB">>,
               <<"U+1D7EC", "U+1D7ED", "U+1D7EE", "U+1D7EF", "U+1D7F0", "U+1D7F1", "U+1D7F2", "U+1D7F3", "U+1D7F4", "U+1D7F5">>,
               <<"U+1D7F6", "U+1D7F7", "U+1D7F8", "U+1D7F9", "U+1D7FA", "U+1D7FB", "U+1D7FC", "U+1D7FD", "U+1D7FE", "U+1D7FF">>,
               <<"U+1E140", "U+1E141", "U+1E142", "U+1E143", "U+1E144", "U+1E145", "U+1E146", "U+1E147", "U+1E148", "U+1E149">>,
               <<"U+1E2F0", "U+1E2F1", "U+1E2F2", "U+1E2F3", "U+1E2F4", "U+1E2F5", "U+1E2F6", "U+1E2F7", "U+1E2F8", "U+1E2F9">>,
               <<"U+1E950", "U+1E951", "U+1E952", "U+1E953", "U+1E954", "U+1E955", "U+1E956", "U+1E957", "U+1E958", "U+1E959">>,
               <<"U+1FBF0", "U+1FBF1", "U+1FBF2", "U+1FBF3", "U+1FBF4", "U+1FBF5", "U+1FBF6", "U+1FBF7", "U+1FBF8", "U+1FBF9">> >> }})

Digits == {DigitChars[i] : i \in 1..Len(DigitChars)}

\* int() of a decimal digit
DigitVal(c) ==
    IF c \in Digits THEN (CHOOSE i \in 1..Len(DigitChars) : DigitChars[i] = c) - 1
    ELSE UnicodeDigits[c]

\* \d matches at position i
IsDigitAt(s, i) ==
    /\ i >= 1 /\ i <= Len(s)
    /\ (s[i] \in Digits \/ s[i] \in DOMAIN UnicodeDigits)

\* a class of ASCII digits, [0-9] or a part of it, matches at position i
IsAsciiDigitAt(s, i) == i >= 1 /\ i <= Len(s) /\ s[i] \in Digits

Num2(s, i) == DigitVal(s[i]) * 10 + DigitVal(s[i + 1])

Num4(s, i) == Num2(s, i) * 100 + Num2(s, i + 2)

Pad2(n) == <<DigitChars[((n \div 10) % 10) + 1], DigitChars[(n % 10) + 1]>>

\* strftime('%Y') of the C library the scripts run on (glibc): the decimal
\* digits of the year without padding, so a year below 1000 has fewer than
\* four digits
RECURSIVE StrftimeYear(_)
StrftimeYear(n) == IF n < 10 THEN <<DigitChars[n + 1]>>
                   ELSE StrftimeYear(n \div 10) \o <<DigitChars[(n % 10) + 1]>>

\* the characters the \s of a regular expression on str matches; a character
\* that has no escape is written by its code point
Whitespace ==
    {" ", "\t", "\n", "\r", "\f", "U+000B", "U+001C", "U+001D", "U+001E", "U+001F",
     "U+0085", "U+00A0", "U+1680", "U+2000", "U+2001", "U+2002", "U+2003", "U+2004",
     "U+2005", "U+2006", "U+2007", "U+2008", "U+2009", "U+200A", "U+2028", "U+2029",
     "U+202F", "U+205F", "U+3000"}

(***************************************************************************)
(* datetime.strptime.  A directive is matched the way the regular          *)
(* expression of _strptime matches it: the two-character alternatives      *)
(* first, then the one-character alternative.  The result of matching one  *)
(* directive at position i is <<ok, value, next position>>.                *)
(***************************************************************************)
NoMatch == <<FALSE, 0, 0>>

\* the two-character alternatives of a directive with the values lo..hi.
\* Their first character is a class of ASCII digits; the second is \d where
\* every digit may follow the first ([0-1]\d of %H, [1-2]\d of %d, [0-5]\d of
\* %M and %S) and a class of ASCII digits where not (2[0-3], 3[0-1], 0[1-9],
\* 1[0-2], 6[0-1])
TwoDigits(s, i, lo, hi) ==
    /\ IsAsciiDigitAt(s, i)
    /\ IF 10 * DigitVal(s[i]) >= lo /\ 10 * DigitVal(s[i]) + 9 <= hi
       THEN IsDigitAt(s, i + 1)
       ELSE IsAsciiDigitAt(s, i + 1) /\ Num2(s, i) >= lo /\ Num2(s, i) <= hi

\* the one-character alternative: \d where 0 is a value (%H, %M, %S), the
\* class [1-9] where it is not (%m, %d)
OneDigit(s, i, lo) ==
    IF lo = 0 THEN IsDigitAt(s, i) ELSE IsAsciiDigitAt(s, i) /\ DigitVal(s[i]) >= lo

MatchDirective(d, s, i) ==
    CASE d = "%Y" ->
           IF IsDigitAt(s, i) /\ IsDigitAt(s, i + 1) /\ IsDigitAt(s, i + 2) /\ IsDigitAt(s, i + 3)
           THEN <<TRUE, Num4(s, i), i + 4>> ELSE NoMatch
      [] d = "%m" ->
           IF TwoDigits(s, i, 1, 12) THEN <<TRUE, Num2(s, i), i + 2>>
           ELSE IF OneDigit(s, i, 1) THEN <<TRUE, DigitVal(s[i]), i + 1>>
           ELSE NoMatch
      [] d = "%d" ->
           IF TwoDigits(s, i, 1, 31) THEN <<TRUE, Num2(s, i), i + 2>>
           ELSE IF OneDigit(s, i, 1) THEN <<TRUE, DigitVal(s[i]), i + 1>>
           ELSE IF i <= Len(s) /\ s[i] = " " /\ OneDigit(s, i + 1, 1)
                THEN <<TRUE, DigitVal(s[i + 1]), i + 2>>
           ELSE NoMatch
      [] d = "%H" ->
           IF TwoDigits(s, i, 0, 23) THEN <<TRUE, Num2(s, i), i + 2>>
           ELSE IF OneDigit(s, i, 0) THEN <<TRUE, DigitVal(s[i]), i + 1>>
           ELSE NoMatch
      [] d = "%M" ->
           IF TwoDigits(s, i, 0, 59) THEN <<TRUE, Num2(s, i), i + 2>>
           ELSE IF OneDigit(s, i, 0) THEN <<TRUE, DigitVal(s[i]), i + 1>>
           ELSE NoMatch
      [] d = "%S" ->
           IF TwoDigits(s, i, 0, 61) THEN <<TRUE, Num2(s, i), i + 2>>
           ELSE IF OneDigit(s, i, 0) THEN <<TRUE, DigitVal(s[i]), i + 1>>
           ELSE NoMatch

Directives == {"%Y", "%m", "%d", "%H", "%M", "%S"}

\* a blank of the format is the pattern \s+: the position after the run of
\* whitespace that starts at i
RECURSIVE SkipBlanks(_, _)
SkipBlanks(s, i) ==
    IF i <= Len(s) /\ s[i] \in Whitespace THEN SkipBlanks(s, i + 1) ELSE i

\* the values of the directives of fmt[fi..], matched against s[si..];
\* <<>> is never a result of a successful match of a format with a directive
ParseFail == <<-1>>

RECURSIVE MatchFormat(_, _, _, _, _)
MatchFormat(fmt, s, fi, si, acc) ==
    IF fi > Len(fmt)
    THEN IF si = Len(s) + 1 THEN acc ELSE ParseFail   \* unconverted data remains
    ELSE IF fmt[fi] \in Directives
    THEN The({IF m[1] THEN MatchFormat(fmt, s, fi + 1, m[3], Append(acc, m[2]))
                      ELSE ParseFail : m \in {MatchDirective(fmt[fi], s, si)}})
    ELSE IF fmt[fi] = " "
    THEN IF si <= Len(s) /\ s[si] \in Whitespace
         THEN MatchFormat(fmt, s, fi + 1, SkipBlanks(s, si), acc)
         ELSE ParseFail
    ELSE IF si <= Len(s) /\ s[si] = fmt[fi]
         THEN MatchFormat(fmt, s, fi + 1, si + 1, acc)
         ELSE ParseFail

IsLeap(y) == (y % 4 = 0 /\ y % 100 # 0) \/ y % 400 = 0

DaysInMonth(y, m) ==
    IF m = 2 THEN (IF IsLeap(y) THEN 29 ELSE 28)
    ELSE IF m \in {4, 6, 9, 11} THEN 30 ELSE 31

FmtDate == <<"%Y", "-", "%m", "-", "%d">>

FmtDateTime == <<"%Y", "-", "%m", "-", "%d", " ", "%H", ":", "%M", ":", "%S">>

FmtHourMinute == <<"%H", ":", "%M">>

\* the datetime constructor rejects year 0, a day the month does not have, second 60
ValidDate(v) == v[1] >= 1 /\ v[3] <= DaysInMonth(v[1], v[2])

\* strptime(s, '%Y-%m-%d').date(): <<y, m, d>>, or ParseFail for ValueError
StrptimeDate(s) ==
    The({IF v # ParseFail /\ ValidDate(v) THEN v ELSE ParseFail :
            v \in {MatchFormat(FmtDate, s, 1, 1, << >>)}})

\* strptime(s, '%Y-%m-%d %H:%M:%S'): <<y, m, d, H, M, S>>, or ParseFail
StrptimeDateTime(s) ==
    The({IF v # ParseFail /\ ValidDate(v) /\ v[6] <= 59 THEN v ELSE ParseFail :
            v \in {MatchFormat(FmtDateTime, s, 1, 1, << >>)}})

\* strptime(s, '%H:%M'): <<H, M>>, or ParseFail
StrptimeHourMinute(s) == MatchFormat(FmtHourMinute, s, 1, 1, << >>)

\* date.strftime('%Y-%m-%d')
StrftimeDate(d) == StrftimeYear(d[1]) \o <<"-">> \o Pad2(d[2]) \o <<"-">> \o Pad2(d[3])

\* datetime.strftime('%Y-%m-%d %H:%M:%S')
StrftimeDateTime(v) ==
    StrftimeDate(v) \o <<" ">> \o Pad2(v[4]) \o <<":">> \o Pad2(v[5]) \o <<":">> \o Pad2(v[6])

\* a '%H:%M' value has second 0; strftime('%H:%M:%S')
StrftimeTime(v) == Pad2(v[1]) \o <<":">> \o Pad2(v[2]) \o <<":", "0", "0">>

(***************************************************************************)
(* The texts the inputs are drawn from.                                    *)
(***************************************************************************)
TextDay1 == <<"2", "0", "2", "4", "-", "0", "6", "-", "0", "1">>        \* 2024-06-01

TextDay2 == <<"2", "0", "2", "4", "-", "0", "6", "-", "0", "2">>        \* 2024-06-02

TextDay1Short == <<"2", "0", "2", "4", "-", "6", "-", "1">>             \* 2024-6-1

TextOldDay == <<"0", "9", "9", "9", "-", "1", "2", "-", "3", "1">>      \* 0999-12-31

TextDaySlashes == <<"0", "1", "/", "0", "6", "/", "2", "0", "2", "4">>  \* 01/06/2024

TextStamp == TextDay1 \o <<" ", "0", "8", ":", "0", "0", ":", "0", "0">> \* 2024-06-01 08:00:00

TextStampT == TextDay1 \o <<"T", "0", "8", ":", "0", "0", ":", "0", "0">> \* 2024-06-01T08:00:00

\* 2024-6-1<TAB> 8:0:0: one-digit fields, a tab and a blank between date and time
TextStampShort == TextDay1Short \o <<"\t", " ", "8", ":", "0", ":", "0">>

TextHalfPastEight == <<"0", "8", ":", "3", "0">>                        \* 08:30

\* 8:30 with the hour written as ARABIC-INDIC DIGIT EIGHT
TextHalfPastEightShort == <<"U+0668", ":", "3", "0">>

TextHour25 == <<"2", "5", ":", "0", "0">>                               \* 25:00

TextFive == <<"1", "7", ":", "0", "0">>                                 \* 17:00

\* date.today() when a run resolves its first omitted bound
Today == <<2024, 6, 2>>

\* the calendar day after d
NextDay(d) ==
    IF d[3] < DaysInMonth(d[1], d[2]) THEN <<d[1], d[2], d[3] + 1>>
    ELSE IF d[2] < 12 THEN <<d[1], d[2] + 1, 1>>
    ELSE <<d[1] + 1, 1, 1>>

\* what the two calls of date.today() in sync_data return: the date can
\* change between the first call and the second
ClockReads == {<<Today, Today>>, <<Today, NextDay(Today)>>}

(***************************************************************************)
(* Source rows.  An API row is a JSON object; a row that lacks a field is  *)
(* a record without that field.                                            *)
(***************************************************************************)
ApiRow(id, harvest_date, start_time, kgs) ==
    [id |-> id, farm |-> "F1", plot |-> "P1", produce |-> "grape", worker |-> "W1",
     unit |-> "kg", harvest_date |-> harvest_date, start_time |-> start_time,
     end_time |-> TextFive, duration |-> 8, containers |-> 4, kgs_harvested |-> kgs]

Without(rec, field) == [f \in DOMAIN rec \ {field} |-> rec[f]]

\* the sequences over S of length at most n
SeqsUpTo(S, n) == UNION {[1..k -> S] : k \in 0..n}

ApiRows ==
    { ApiRow("H100", TextStamp, TextHalfPastEight, 100),
      ApiRow("H100", TextStampShort, TextHalfPastEightShort, 150),
      Without(ApiRow("H101", TextStamp, TextHalfPastEight, 100), "harvest_date"),
      ApiRow("H101", TextStamp, TextHour25, 100) }

SupabaseRow(d, harvested, packed) ==
    [date |-> d, kilos_harvested |-> harvested, kilos_packed |-> packed]

SupabaseRows ==
    { SupabaseRow(TextDay1, 150, 50),
      SupabaseRow(TextDay1, 100, 40),
      SupabaseRow(TextStampT, 100, 40),
      Without(SupabaseRow(TextDay2, 100, 40), "date") }

\* the dates pd.to_datetime is taken to make of a text that is not a plain date
SomeDates == {<<2024, 6, 1>>, <<2024, 6, 2>>}

\* what the source can hold for a window: the responses of the script's source
Responses(k) == SeqsUpTo(IF k = "harvest" THEN ApiRows ELSE SupabaseRows, MaxRows)

\* batches long enough for the progress output: n rows, the last one unusable
\* when bad
LongBatch(k, n, bad) ==
    [i \in 1..n |->
        IF k = "harvest"
        THEN IF bad /\ i = n
             THEN Without(ApiRow("H101", TextStamp, TextHalfPastEight, 100), "harvest_date")
             ELSE ApiRow("H100", TextStamp, TextHalfPastEight, 100)
        ELSE IF bad /\ i = n
             THEN Without(SupabaseRow(TextDay2, 100, 40), "date")
             ELSE SupabaseRow(TextDay1, 150, 50)]

LongResponses(k) == {LongBatch(k, n, bad) : n \in 1..MaxBatch, bad \in BOOLEAN}

\* the batches two invocations at the same time are given.  A usable row of
\* one of two keys, with the kilograms given, and a row that cannot be mapped
TwoRunRow(k, key, kgs) ==
    IF k = "harvest"
    THEN ApiRow(IF key = 1 THEN "H100" ELSE "H101", TextStamp, TextHalfPastEight, kgs)
    ELSE SupabaseRow(IF key = 1 THEN TextDay1 ELSE TextDay2, kgs, 40)

UnusableRow(k, kgs) ==
    IF k = "harvest"
    THEN Without(ApiRow("H101", TextStamp, TextHalfPastEight, kgs), "harvest_date")
    ELSE Without(SupabaseRow(TextDay2, kgs, 40), "date")

\* a batch of n rows that begins with the key first: rows of that key, rows
\* of the two keys in turn, or rows of that key and a last row that cannot
\* be mapped
TwoRunBatch(k, n, kgs, first, shape) ==
    [i \in 1..n |->
        IF shape = "unusable" /\ i = n THEN UnusableRow(k, kgs)
        ELSE IF shape = "two keys" /\ i % 2 = 0 THEN TwoRunRow(k, 3 - first, kgs)
        ELSE TwoRunRow(k, first, kgs)]

TwoRunResponses(k, kgs, first) ==
    {TwoRunBatch(k, n, kgs, first, shape) :
        n \in 0..MaxShared, shape \in {"one key", "two keys", "unusable"}}

\* a command-line argument: absent, or present with a text
NoArg == [given |-> FALSE, text |-> <<>>]

Arg(text) == [given |-> TRUE, text |-> text]

\* the command lines tried: <<--start-date, --end-date>>
CliArgs ==
    { <<NoArg, NoArg>>,
      <<Arg(TextOldDay), Arg(TextDay1Short)>>,
      <<Arg(TextDay1), Arg(<< >>)>>,
      <<Arg(TextDaySlashes), Arg(TextDay1)>>,
      <<Arg(TextDay1), Arg(TextDaySlashes)>> }

Kinds == {"harvest", "tvn"}

(***************************************************************************)
(* Error texts: str(e) of the exception a stage raises.                    *)
(***************************************************************************)
NoError == ""

ErrSource == "source unavailable"

\* response.json() on a body that is not JSON: JSONDecodeError, a ValueError
ErrJson == "Expecting value"

\* print() of a character sys.stdout cannot encode: UnicodeEncodeError, a ValueError
ErrEncode == "codec can't encode character"

ErrConnect == "database connection error"

ErrExecute == "execute failed"

ErrCommit == "commit failed"

ErrExitCommit == "commit on leaving the with block failed"

ErrMissingColumns == "Missing required columns in Supabase response"

\* what pd.to_datetime raises over a column it does not read: a ValueError
\* in every pandas (DateParseError, OutOfBoundsDatetime, dateutil's
\* ParserError and "time data ... doesn't match format" all derive from it)
ErrToDatetime == "to_datetime raised"

ErrNaT == "NaTType does not support strftime"

KeyErrorText(field) == "KeyError " \o field

ValueErrorText(field) == "time data does not match format: " \o field

(***************************************************************************)
(* main.py: the mapping of one API row to the parameters of its MERGE      *)
(* (insert_data, lines 127-144), in the order the code evaluates it.       *)
(***************************************************************************)
Mapped(row) == [ok |-> TRUE, row |-> row, err |-> NoError]

MapFailed(err) == [ok |-> FALSE, row |-> << >>, err |-> err]

HarvestTextFields == <<"harvest_date", "start_time", "end_time">>

HarvestPlainFields ==
    <<"id", "farm", "plot", "produce", "worker", "unit", "duration", "containers",
      "kgs_harvested">>

\* the parsed value of the text field f of the record
ParseHarvestField(record, f) ==
    IF f = "harvest_date" THEN StrptimeDateTime(record[f]) ELSE StrptimeHourMinute(record[f])

\* the first text field, in evaluation order, that is missing or does not parse; 0 if none
FirstBadTextField(record) ==
    LET bad == {i \in 1..Len(HarvestTextFields) :
                   \/ HarvestTextFields[i] \notin DOMAIN record
                   \/ ParseHarvestField(record, HarvestTextFields[i]) = ParseFail}
    IN  IF bad = {} THEN 0 ELSE CHOOSE i \in bad : \A j \in bad : i <= j

FirstMissingPlainField(record) ==
    LET bad == {i \in 1..Len(HarvestPlainFields) : HarvestPlainFields[i] \notin DOMAIN record}
    IN  IF bad = {} THEN 0 ELSE CHOOSE i \in bad : \A j \in bad : i <= j

\* strptime(text, '%Y-%m-%d %H:%M:%S').strftime('%Y-%m-%d %H:%M:%S') (line 127)
ReformatDateTime(text) == The({StrftimeDateTime(v) : v \in {StrptimeDateTime(text)}})

\* strptime(text, '%H:%M').strftime('%H:%M:%S') (lines 128-129)
ReformatTime(text) == The({StrftimeTime(v) : v \in {StrptimeHourMinute(text)}})

HarvestParamsAt(record, t, p) ==
    IF t # 0
    THEN IF HarvestTextFields[t] \notin DOMAIN record
         THEN MapFailed(KeyErrorText(HarvestTextFields[t]))
         ELSE MapFailed(ValueErrorText(HarvestTextFields[t]))
    ELSE IF p # 0 THEN MapFailed(KeyErrorText(HarvestPlainFields[p]))
    ELSE Mapped([id |-> record.id, farm |-> record.farm, plot |-> record.plot,
                 produce |-> record.produce, worker |-> record.worker,
                 unit |-> record.unit,
                 harvest_date |-> ReformatDateTime(record.harvest_date),
                 start_time |-> ReformatTime(record.start_time),
                 end_time |-> ReformatTime(record.end_time),
                 duration |-> record.duration, containers |-> record.containers,
                 kgs_harvested |-> record.kgs_harvested])

HarvestParams(record) ==
    The({HarvestParamsAt(record, t, p) :
            t \in {FirstBadTextField(record)}, p \in {FirstMissingPlainField(record)}})

(***************************************************************************)
(* main.py: the MERGE statement on table harvests (lines 95-124).          *)
(* now is the value of GETDATE() when the statement runs.                  *)
(***************************************************************************)
\* faulty variants of the ON clause: a MERGE that never matches, one that always matches
HarvestNeverMatches(target, source) == FALSE

HarvestAlwaysMatches(target, source) == TRUE

HarvestKeyMatches(target, source) == target.id = source.id

HarvestUpdated(target, source, now) ==
    [id |-> target.id, farm |-> source.farm, plot |-> source.plot,
     produce |-> source.produce, worker |-> source.worker, unit |-> source.unit,
     harvest_date |-> source.harvest_date, start_time |-> source.start_time,
     end_time |-> source.end_time, duration |-> source.duration,
     containers |-> source.containers, kgs_harvested |-> source.kgs_harvested,
     insert_date |-> now]

HarvestInserted(source, now) ==
    [id |-> source.id, farm |-> source.farm, plot |-> source.plot,
     produce |-> source.produce, worker |-> source.worker, unit |-> source.unit,
     harvest_date |-> source.harvest_date, start_time |-> source.start_time,
     end_time |-> source.end_time, duration |-> source.duration,
     containers |-> source.containers, kgs_harvested |-> source.kgs_harvested,
     insert_date |-> now]

MergeHarvests(tbl, source, now) ==
    LET matched == {t \in tbl : HarvestKeyMatches(t, source)}
    IN  IF matched # {}
        THEN (tbl \ matched) \cup {HarvestUpdated(t, source, now) : t \in matched}
        ELSE tbl \cup {HarvestInserted(source, now)}

(***************************************************************************)
(* get_tvn.py: get_supabase_data on the rows of the response (lines 76-99) *)
(* and the mapping and MERGE of insert_data (lines 128-147).               *)
(***************************************************************************)
NaT == << >>

SupabaseColumns == {"date", "kilos_harvested", "kilos_packed"}

\* a cell written YYYY-MM-DD in ASCII digits that names a day of the calendar
\* in a year that lies wholly inside the range of a nanosecond timestamp
\* (1677-09-21 to 2262-04-11)
IsPlainDate(text) ==
    /\ Len(text) = 10 /\ text[5] = "-" /\ text[8] = "-"
    /\ \A i \in {1, 2, 3, 4, 6, 7, 9, 10} : IsAsciiDigitAt(text, i)
    /\ LET v == StrptimeDate(text)
       IN  v # ParseFail /\ v[1] >= 1678 /\ v[1] <= 2261

\* pd.to_datetime(df['date']).dt.date (line 99) is called without a format,
\* and the script pins no version of pandas.  What holds of every pandas: a
\* null cell becomes NaT and a plain date becomes that date.  How any other
\* text is read is pandas' choice (which texts it reads, whether the first
\* cell binds the format of the column, what a timestamp may hold): v is any
\* date or NaT
CanRead(row, v) ==
    IF "date" \notin DOMAIN row THEN v = NaT
    ELSE IF IsPlainDate(row.date) THEN v = StrptimeDate(row.date)
    ELSE TRUE

\* the call can raise only over a cell that is not null and not a plain date
CanRaise(response) ==
    \E i \in 1..Len(response) :
        "date" \in DOMAIN response[i] /\ ~IsPlainDate(response[i].date)

\* the columns of dates line 99 can make of the rows, the dates pandas
\* makes of other texts taken from SomeDates
RECURSIVE Readings(_)
Readings(response) ==
    IF response = << >> THEN {<< >>}
    ELSE {<<v>> \o rest : v \in {w \in SomeDates \cup {NaT} : CanRead(Head(response), w)},
                          rest \in Readings(Tail(response))}

\* the outcomes of line 99 on the rows of a response: it returns a column of
\* dates or it raises
ToDatetimeOutcomes(response) ==
    {[raised |-> FALSE, dates |-> dates] : dates \in Readings(response)}
        \cup (IF CanRaise(response) THEN {[raised |-> TRUE, dates |-> << >>]} ELSE {})

Fetched(rows) == [ok |-> TRUE, data |-> rows, err |-> NoError]

FetchRaised(err) == [ok |-> FALSE, data |-> << >>, err |-> err]

\* lines 80-106: the DataFrame of a response when line 99 has the outcome
\* given, or the error raised on the way
DataFrameOf(response, outcome) ==
    LET columns == UNION {DOMAIN response[i] : i \in 1..Len(response)}
    IN  IF ~(SupabaseColumns \subseteq columns) THEN FetchRaised(ErrMissingColumns)
        ELSE IF outcome.raised THEN FetchRaised(ErrToDatetime)
        ELSE Fetched([i \in 1..Len(response) |->
                         [date |-> outcome.dates[i],
                          kgs_harvest_tvn |-> response[i].kilos_harvested,
                          kgs_packed_cnd |-> response[i].kilos_packed]])

\* lines 76-78: an empty response is returned as an empty DataFrame
get_supabase_data(response, outcome) ==
    IF response = << >> THEN Fetched(<< >>) ELSE DataFrameOf(response, outcome)

\* main.py: fetch_api_data returns the decoded response unchanged (lines 74-78)
fetch_api_data(response) == Fetched(response)

\* faulty variant: the counter keeps its initial value
CountNothing(rows) == Len(rows) - Len(rows)

\* records_processed = len(data) (main.py 216)
CountFetched(rows) == Len(rows)

TvnParams(row) ==
    IF row.date = NaT THEN MapFailed(ErrNaT)
    ELSE Mapped([date |-> StrftimeDate(row.date), kgs_harvest_tvn |-> row.kgs_harvest_tvn,
                 kgs_packed_cnd |-> row.kgs_packed_cnd])

TvnKeyMatches(target, source) == target.date = source.date

\* faulty variants of the UPDATE branch: one that adds to the stored totals, one that
\* leaves the matched row as it was
TvnAccumulated(target, source) ==
    [date |-> target.date, kgs_harvest_tvn |-> target.kgs_harvest_tvn + source.kgs_harvest_tvn,
     kgs_packed_cnd |-> target.kgs_packed_cnd + source.kgs_packed_cnd]

TvnNotUpdated(target, source) == target

TvnUpdated(target, source) ==
    [date |-> target.date, kgs_harvest_tvn |-> source.kgs_harvest_tvn,
     kgs_packed_cnd |-> source.kgs_packed_cnd]

TvnInserted(source) ==
    [date |-> source.date, kgs_harvest_tvn |-> source.kgs_harvest_tvn,
     kgs_packed_cnd |-> source.kgs_packed_cnd]

MergeTracefruit(tbl, source) ==
    LET matched == {t \in tbl : TvnKeyMatches(t, source)}
    IN  IF matched # {}
        THEN (tbl \ matched) \cup {TvnUpdated(t, source) : t \in matched}
        ELSE tbl \cup {TvnInserted(source)}

(***************************************************************************)
(* Both scripts.                                                           *)
(***************************************************************************)
TableOf(k) == IF k = "harvest" THEN "harvests" ELSE "tracefruit_harvest"

Params(k, row) == IF k = "harvest" THEN HarvestParams(row) ELSE TvnParams(row)

Merge(k, tbl, source, now) ==
    IF k = "harvest" THEN MergeHarvests(tbl, source, now) ELSE MergeTracefruit(tbl, source)

\* the natural key of a parameter row or of a destination row
KeyOf(k, row) == IF k = "harvest" THEN row.id ELSE row.date

\* faulty variant: a connection with autocommit on
ExecutedAutocommit(persisted, staged) == staged

\* pyodbc.connect(conn_str) opens the connection with autocommit off (main.py 52,
\* get_tvn.py 43): what the table holds after a successful cursor.execute
Executed(persisted, staged) == persisted

\* what the table can hold after conn.commit() of a transaction that began
\* on the table snapshot, has executed statements for the keys written and
\* holds the rows staged: the rows it wrote (those of the keys written, and
\* every row staged that the snapshot did not hold) are put, the rows it
\* replaced go, the other rows stay as the table holds them.  A row of a key
\* written that the snapshot did not hold was committed by another
\* connection since; whether the server keeps it beside the row staged is
\* decided by the server's isolation level and the constraints of the
\* table, which the scripts do not set
Committed(k, persisted, staged, written, snapshot) ==
    LET own == (staged \ snapshot) \cup {r \in staged : KeyOf(k, r) \in written}
        keys == {KeyOf(k, r) : r \in own}
        began == {KeyOf(k, r) : r \in snapshot}
        others == {r \in persisted \ (snapshot \ staged) : KeyOf(k, r) \notin keys}
        late == {r \in persisted : KeyOf(k, r) \in keys \ began}
    IN  {others \cup own \cup both : both \in SUBSET late}

\* what the open transaction sees after conn.rollback()
RolledBack(persisted, staged) == persisted

\* error_message = str(e) in the except clause of sync_data
FailureText(err) == err

\* main(): the value handed to sync_data for one argument (lines 258-259)
ParseArg(a) == IF a.given /\ a.text # << >> THEN StrptimeDate(a.text) ELSE << >>

\* sync_data: an omitted bound is what date.today() returns when the bound
\* is resolved (lines 206-209)
Resolve(d, today) == IF d = << >> THEN today ELSE d

(***************************************************************************)
(* State.                                                                  *)
(***************************************************************************)
VARIABLES
    pc,                 \* position of the running script; "idle" between invocations
    kind,               \* the script of this behaviour: "harvest" (main.py) or "tvn" (get_tvn.py)
    start_arg, end_arg, \* --start-date and --end-date as given
    start_date, end_date, \* the window inside sync_data; << >> is None
    data,               \* the fetched batch
    index,              \* position of the next row of the batch in insert_data
    records_processed,  \* main.py sync_data's counter
    error,              \* str(e) of the exception on its way to sync_data's handler
    conn,               \* TRUE while the run holds its database connection
    work,               \* the table as the connection's open transaction sees it
    seen,               \* the rows the table held when that transaction began
    db,                 \* the persisted tables: [harvests, tracefruit_harvest]
    clock,              \* the destination server's clock, read by GETDATE()
    source,             \* the rows the source holds: its response to a fetch
    reading,            \* what pandas has made of the dates of these rows: the set of
                        \* the one outcome, empty until get_supabase_data converts them
    trace,              \* calls to collaborators and log records of this run, in order
    pre,                \* db when this run started
    synced,             \* how often in a row insert_data committed the rows source holds
                        \* now: "no", "once", "again"
    cid,                \* identity of the connection the run holds; 0 for none
    pc2,                \* position of a second invocation of the script that runs
                        \* at the same time as the first; "off" until it starts
    cid2,               \* identity of the second invocation's connection; 0 for none
    data2,              \* the batch the second invocation fetched
    index2,             \* position of its next row in insert_data
    work2,              \* the table as its connection's open transaction sees it
    seen2,              \* the rows the table held when that transaction began
    trace2,             \* the second invocation's calls to source and destination, in order
    stdout              \* the encoding of the process's sys.stdout

proc == <<pc, kind, start_arg, end_arg, start_date, end_date, data, index,
          records_processed, error, conn, work, seen, trace, cid, stdout>>

run2 == <<pc2, cid2, data2, index2, work2, seen2, trace2>>

vars == <<pc, kind, start_arg, end_arg, start_date, end_date, data, index,
          records_processed, error, conn, work, seen, db, clock, source, reading, trace, pre,
          synced,
          cid, pc2, cid2, data2, index2, work2, seen2, trace2, stdout>>

(***************************************************************************)
(* print().  The scripts print the check mark on the success of a step and *)
(* the ballot x in an except clause; a stdout whose encoding lacks the     *)
(* character makes that print raise UnicodeEncodeError.  Every other text  *)
(* the scripts print is ASCII.                                             *)
(***************************************************************************)
CheckMark == "U+2713"

BallotX == "U+2717"

Encodings == {"utf-8", "cp1252"}

\* the marks the codec of the encoding can encode
Encodable(enc) == IF enc = "utf-8" THEN {CheckMark, BallotX} ELSE {}

\* print of a text that holds the mark raises
PrintRaises(mark) == mark \notin Encodable(stdout)

\* the error that leaves an except clause that prints the ballot x before
\* its raise: the error of the print, if it raises, in place of err
ExceptPrint(err) == IF PrintRaises(BallotX) THEN ErrEncode ELSE err

\* what the source's answer has become when the fetch function has printed
\* its success line, which it does when printed
SuccessPrint(result, printed) ==
    IF result.ok /\ printed /\ PrintRaises(CheckMark) THEN FetchRaised(ErrEncode)
    ELSE result

Call(op) == [op |-> op]

MergeCall(k) == [op |-> "merge", row |-> k]

\* the value of index in the loop at the i-th row: enumerate(data, 1) counts
\* from 1 (main.py 90), iterrows yields the labels of the frame's RangeIndex,
\* which count from 0 (get_tvn.py 82, 122)
LoopIndex(k, i) == IF k = "harvest" THEN i ELSE i - 1

\* faulty variant: progress every 20 records
ShowsProgressSparse(label) == label % 20 = 0

\* if index % 10 == 0 (main.py 91, get_tvn.py 123)
ShowsProgress(label) == label % 10 = 0

\* progress = (index / total_records) * 100, kept as the fraction
\* percent_num / percent_den (main.py 92-93, get_tvn.py 124-125)
Progress(i, label, total) ==
    [op |-> "progress", row |-> i, index |-> label, total |-> total,
     percent_num |-> label * 100, percent_den |-> total]

\* what the i-th iteration prints before it maps the row
ProgressOf(k, i, total) ==
    IF ShowsProgress(LoopIndex(k, i)) THEN <<Progress(i, LoopIndex(k, i), total)>> ELSE << >>

\* the request of the fetch: the window as the query parameters carry it
\* (main.py 61-65, get_tvn.py 64-67)
FetchCall(sd, ed) ==
    [op |-> "fetch", dateStart |-> StrftimeDate(sd), dateEnd |-> StrftimeDate(ed)]

Log(level, text, detail) == [op |-> "log", level |-> level, text |-> text, detail |-> detail]

Notify(success, sd, ed, message, count, delivery) ==
    [op |-> "notify", success |-> success, start_date |-> sd, end_date |-> ed,
     error_message |-> message, records_processed |-> count, delivery |-> delivery]

\* the destination before the first run: one row per table, left by an earlier sync
InitialDb ==
    { [harvests |-> {[id |-> "H099", farm |-> "F1", plot |-> "P1", produce |-> "grape",
                      worker |-> "W1", unit |-> "kg", harvest_date |-> TextStamp,
                      start_time |-> TextHalfPastEight \o <<":", "0", "0">>,
                      end_time |-> TextFive \o <<":", "0", "0">>, duration |-> 8,
                      containers |-> 4, kgs_harvested |-> 100, insert_date |-> 0]},
       tracefruit_harvest |-> {[date |-> TextDay2, kgs_harvest_tvn |-> 100,
                                kgs_packed_cnd |-> 40]}] }

Init ==
    /\ pc = "idle"
    /\ kind \in Kinds
    /\ start_arg = NoArg /\ end_arg = NoArg
    /\ start_date = << >> /\ end_date = << >>
    /\ data = << >>
    /\ index = 1
    /\ records_processed = 0
    /\ error = NoError
    /\ conn = FALSE
    /\ work = {} /\ seen = {}
    /\ db \in InitialDb
    /\ clock = 0
    /\ source \in Responses(kind)
    /\ reading = {}
    /\ trace = << >>
    /\ pre = db
    /\ synced = "no"
    /\ cid = 0
    /\ pc2 = "off" /\ cid2 = 0 /\ data2 = << >> /\ index2 = 1 /\ work2 = {} /\ seen2 = {}
    /\ trace2 = << >>
    /\ stdout \in Encodings

(***************************************************************************)
(* The connections of the invocations.                                     *)
(***************************************************************************)
ConnIds == {1, 2}

\* faulty variant: one connection is kept and handed to every caller
pyodbc_connect_cached(held) == IF held = {} THEN 1 ELSE CHOOSE c \in held : TRUE

\* pyodbc.connect(conn_str): every call opens a connection of its own
\* (main.py 52, get_tvn.py 43)
pyodbc_connect(held) == CHOOSE c \in ConnIds \ held : TRUE

HeldBy(c) == IF c = 0 THEN {} ELSE {c}

\* the keys of the first n rows of a batch, all of them usable: the keys the
\* loop of insert_data has written when it is at row n + 1
KeysWritten(rows, n) == {KeyOf(kind, Params(kind, rows[i]).row) : i \in 1..n}

(***************************************************************************)
(* main(): parse the arguments and enter sync_data, which resolves the     *)
(* window (main.py 249-266 and 203-212, get_tvn.py 189-206 and 162-170).   *)
(***************************************************************************)
Main(sa, ea, today1, today2) ==
    /\ pc = "idle"
    /\ start_arg' = sa /\ end_arg' = ea
    /\ pre' = db
    /\ data' = << >> /\ index' = 1 /\ records_processed' = 0 /\ error' = NoError
    /\ IF ParseArg(sa) = ParseFail \/ ParseArg(ea) = ParseFail
       THEN /\ start_date' = << >> /\ end_date' = << >>
            /\ trace' = <<Log("error", "Invalid date format", NoError)>>
            /\ pc' = "done"
       ELSE /\ start_date' = Resolve(ParseArg(sa), today1)
            /\ end_date' = Resolve(ParseArg(ea), today2)
            /\ trace' = << >>
            /\ pc' = "fetch"
    /\ UNCHANGED <<run2, cid, kind, stdout, conn, work, seen, db, clock, source, reading, synced>>

(***************************************************************************)
(* The fetch stage.  A fetch function that raises runs its except clause:  *)
(* it logs the error, prints the ballot x and raises the error again       *)
(* (main.py 79-82, get_tvn.py 107-114).                                    *)
(***************************************************************************)
FetchDone(result, count) ==
    IF result.ok
    THEN /\ data' = result.data
         /\ records_processed' = count
         /\ error' = NoError
         /\ trace' = Append(trace, FetchCall(start_date, end_date))
         /\ pc' = "connect"
    ELSE /\ data' = << >>
         /\ records_processed' = 0
         /\ error' = ExceptPrint(result.err)
         /\ trace' = trace \o <<FetchCall(start_date, end_date),
                                 Log("error", "fetch error", result.err)>>
         /\ pc' = "report"

\* fetch_api_data answers (main.py 57-78, 215-216)
FetchApiData ==
    /\ pc = "fetch" /\ kind = "harvest"
    /\ FetchDone(SuccessPrint(fetch_api_data(source), TRUE),
                 CountFetched(fetch_api_data(source).data))
    /\ UNCHANGED <<run2, cid, kind, stdout, start_arg, end_arg, start_date, end_date, index,
                   conn, work, seen, db, clock, source, reading, pre, synced>>

\* get_supabase_data answers (get_tvn.py 48-106, 173).  pd.to_datetime is
\* a function: rows that are fetched again are read as they were before
GetSupabaseData ==
    /\ pc = "fetch" /\ kind = "tvn"
    /\ \E outcome \in (IF reading = {} THEN ToDatetimeOutcomes(source) ELSE reading) :
           /\ FetchDone(The({SuccessPrint(r, source # << >>) :
                                r \in {get_supabase_data(source, outcome)}}), 0)
           /\ reading' = {outcome}
    /\ UNCHANGED <<run2, cid, kind, stdout, start_arg, end_arg, start_date, end_date, index,
                   conn, work, seen, db, clock, source, pre, synced>>

\* what the request can raise: the source does not answer, or, in main.py,
\* its answer is not JSON (main.py 74-76, get_tvn.py 54-71)
SourceErrors(k) == IF k = "harvest" THEN {ErrSource, ErrJson} ELSE {ErrSource}

\* the request itself raises (main.py 79-82, get_tvn.py 107-114)
SourceUnavailable(err) ==
    /\ pc = "fetch"
    /\ FetchDone(FetchRaised(err), 0)
    /\ UNCHANGED <<run2, cid, kind, stdout, start_arg, end_arg, start_date, end_date, index,
                   conn, work, seen, db, clock, source, reading, pre, synced>>

(***************************************************************************)
(* get_database_connection (main.py 43-55, 220; get_tvn.py 34-46, 177).    *)
(***************************************************************************)
\* the connection is opened and the with block is entered; its first
\* statement prints the check mark, and a print that raises leaves the
\* block, whose exit rolls back (main.py 220-221, get_tvn.py 177-178)
Connect ==
    /\ pc = "connect"
    /\ conn' = TRUE
    /\ cid' = pyodbc_connect(HeldBy(cid2))
    /\ work' = db[TableOf(kind)]
    /\ seen' = db[TableOf(kind)]
    /\ index' = 1
    /\ IF PrintRaises(CheckMark)
       THEN /\ trace' = trace \o <<Call("connect"), Call("exit_rollback")>>
            /\ error' = ErrEncode
            /\ pc' = "report"
       ELSE /\ trace' = Append(trace, Call("connect"))
            /\ error' = error
            /\ pc' = "insert"
    /\ UNCHANGED <<run2, kind, stdout, start_arg, end_arg, start_date, end_date, data,
                   records_processed, db, clock, source, reading, pre, synced>>

ConnectFails ==
    /\ pc = "connect"
    /\ error' = ErrConnect
    /\ trace' = trace \o <<Call("connect"), Log("error", "Database connection error", ErrConnect)>>
    /\ pc' = "report"
    /\ UNCHANGED <<run2, cid, kind, stdout, start_arg, end_arg, start_date, end_date, data,
                   index, records_processed, conn, work, seen, db, clock, source, reading, pre, synced>>

(***************************************************************************)
(* insert_data (main.py 84-155, get_tvn.py 116-158).  A failure runs the   *)
(* except clause (rollback, log, raise) and leaves the with block of       *)
(* sync_data, whose exit rolls back as well.                               *)
(***************************************************************************)
Abort(calls, err) ==
    /\ work' = RolledBack(db[TableOf(kind)], work)
    /\ error' = err
    /\ trace' = trace \o calls
                  \o <<Call("rollback"), Log("error", "Data insertion error", err),
                       Call("exit_rollback")>>
    /\ pc' = "report"
    /\ UNCHANGED <<run2, cid, kind, stdout, start_arg, end_arg, start_date, end_date, data,
                   index, records_processed, conn, seen, db, clock, source, reading, pre, synced>>

\* faulty variant: the loop is left before the last row
LoopDoneEarly(i, n) == i >= n

\* the for loop of insert_data is exhausted after the last row
\* (main.py 90-144, get_tvn.py 122-147)
LoopDone(i, n) == i > n

\* faulty variant: the loop stays on the row it has just written
Stay(i) == i

\* enumerate(data, 1) and df.iterrows(): the loop moves on to the next row
\* (main.py 90, get_tvn.py 122)
Advance(i) == i + 1

\* one iteration of the loop: the row is mapped and its MERGE succeeds
InsertRow ==
    /\ pc = "insert" /\ ~LoopDone(index, Len(data))
    /\ Params(kind, data[index]).ok
    /\ work' = Merge(kind, work, Params(kind, data[index]).row, clock)
    /\ db' = [db EXCEPT ![TableOf(kind)] = Executed(@, work')]
    /\ index' = Advance(index)
    /\ trace' = trace \o ProgressOf(kind, index, Len(data)) \o <<MergeCall(index)>>
    /\ UNCHANGED <<run2, cid, pc, kind, stdout, start_arg, end_arg, start_date, end_date, data,
                   records_processed, error, conn, seen, clock, source, reading, pre, synced>>

\* the mapping of the row raises
MappingFails ==
    /\ pc = "insert" /\ ~LoopDone(index, Len(data))
    /\ ~Params(kind, data[index]).ok
    /\ Abort(ProgressOf(kind, index, Len(data)), Params(kind, data[index]).err)

\* cursor.execute raises
ExecuteFails ==
    /\ pc = "insert" /\ ~LoopDone(index, Len(data))
    /\ Params(kind, data[index]).ok
    /\ Abort(ProgressOf(kind, index, Len(data)) \o <<MergeCall(index)>>, ErrExecute)

\* conn.commit() after the loop, and the print of the check mark after it:
\* a print that raises runs the except clause on the committed batch
\* (main.py 146-153, get_tvn.py 149-156)
Commit ==
    /\ pc = "insert" /\ LoopDone(index, Len(data))
    /\ \E tbl \in Committed(kind, db[TableOf(kind)], work, KeysWritten(data, index - 1), seen) :
           db' = [db EXCEPT ![TableOf(kind)] = tbl]
    /\ synced' = IF synced = "no" THEN "once" ELSE "again"
    /\ IF PrintRaises(CheckMark)
       THEN /\ trace' = trace \o <<Call("commit"), Call("rollback"),
                                     Log("error", "Data insertion error", ErrEncode),
                                     Call("exit_rollback")>>
            /\ error' = ErrEncode
            /\ pc' = "report"
       ELSE /\ trace' = trace \o <<Call("commit"),
                                     Log("info", "Successfully processed", Len(data))>>
            /\ error' = error
            /\ pc' = "with_exit"
    /\ UNCHANGED <<run2, cid, kind, stdout, start_arg, end_arg,
                   start_date, end_date, data, index, records_processed, conn, work, seen,
                   clock, source, reading, pre>>

CommitFails ==
    /\ pc = "insert" /\ LoopDone(index, Len(data))
    /\ Abort(<<Call("commit")>>, ErrCommit)

(***************************************************************************)
(* Leaving the with block without an exception: the connection's context   *)
(* manager commits (main.py 220-223, get_tvn.py 177-179).                  *)
(***************************************************************************)
WithExit ==
    /\ pc = "with_exit"
    /\ trace' = Append(trace, Call("exit_commit"))
    /\ pc' = "report"
    /\ UNCHANGED <<run2, cid, kind, stdout, start_arg, end_arg, start_date, end_date, data,
                   index, records_processed, error, conn, work, seen, db, clock, source, reading, pre, synced>>

WithExitFails ==
    /\ pc = "with_exit"
    /\ error' = ErrExitCommit
    /\ trace' = Append(trace, Call("exit_commit"))
    /\ pc' = "report"
    /\ UNCHANGED <<run2, cid, kind, stdout, start_arg, end_arg, start_date, end_date, data,
                   index, records_processed, conn, work, seen, db, clock, source, reading, pre, synced>>

(***************************************************************************)
(* The end of sync_data: the success path or the except clause.            *)
(***************************************************************************)
Deliveries == {"sent", "skipped", "failed"}

DeliveryLog(delivery) ==
    IF delivery = "sent" THEN Log("info", "Email notification sent successfully", NoError)
    ELSE IF delivery = "skipped" THEN Log("warning", "Email configuration missing", NoError)
    ELSE Log("error", "Failed to send email notification", NoError)

\* faulty variant: a failed delivery is raised to the caller
DeliveryRaisesWhenFailed(delivery) == delivery = "failed"

\* send_email_notification returns normally whatever the delivery does: missing
\* configuration returns early, a failed delivery is caught and logged
\* (main.py 159-161, 198-199)
DeliveryRaises(delivery) == FALSE

ErrDelivery == "smtp delivery failed"

\* the errors that are ValueErrors
ValueErrors ==
    {ErrMissingColumns, ErrToDatetime, ErrNaT, ErrJson, ErrEncode}
        \cup {ValueErrorText(HarvestTextFields[i]) : i \in 1..Len(HarvestTextFields)}

\* except Exception in sync_data catches the error of every stage
\* (main.py 235, get_tvn.py 184)
Caught(err) == TRUE

\* the handlers of main for what leaves sync_data (main.py 262-266, get_tvn.py 202-206)
MainHandlerLog(err) ==
    IF err \in ValueErrors THEN Log("error", "Invalid date format", err)
    ELSE Log("error", "Error in main", err)

\* one call of send_email_notification
Sent(success, message, delivery) ==
    IF DeliveryRaises(delivery)
    THEN <<Notify(success, start_date, end_date, message, records_processed, delivery)>>
    ELSE <<Notify(success, start_date, end_date, message, records_processed, delivery),
           DeliveryLog(delivery)>>

\* the except clause of main.py's sync_data (235-247): it prints the ballot
\* x before it logs and notifies, and a print that raises leaves sync_data
\* for the handlers of main
ExceptClause(err, delivery) ==
    IF ~Caught(err) THEN <<MainHandlerLog(err)>>
    ELSE IF PrintRaises(BallotX) THEN <<MainHandlerLog(ErrEncode)>>
    ELSE <<Log("error", "Data sync failed", FailureText(err))>>
           \o Sent(FALSE, FailureText(err), delivery)
           \o (IF DeliveryRaises(delivery) THEN <<MainHandlerLog(ErrDelivery)>> ELSE << >>)

\* main.py 225-247, with send_email_notification (157-199); second is the
\* delivery of a notification sent after the first one
ReportHarvest(delivery, second) ==
    /\ pc = "report" /\ kind = "harvest"
    /\ trace' = trace
         \o (IF error = NoError
             THEN <<Log("info", "Data sync completed successfully", NoError)>>
                    \o Sent(TRUE, NoError, delivery)
                    \o (IF DeliveryRaises(delivery)
                        THEN ExceptClause(ErrDelivery, second) ELSE << >>)
             ELSE ExceptClause(error, delivery))
    /\ error' = IF error = NoError
                THEN (IF DeliveryRaises(delivery) THEN ErrDelivery ELSE error)
                ELSE ExceptPrint(error)
    /\ pc' = "done"
    /\ UNCHANGED <<run2, cid, kind, stdout, start_arg, end_arg, start_date, end_date, data,
                   index, records_processed, conn, work, seen, db, clock, source, reading, pre, synced>>

\* get_tvn.py 181-187: the except clause prints the ballot x before it logs
ReportTvn ==
    /\ pc = "report" /\ kind = "tvn"
    /\ trace' = Append(trace,
                       IF error = NoError
                       THEN Log("info", "TVN data sync completed successfully", NoError)
                       ELSE IF ~Caught(error) THEN MainHandlerLog(error)
                       ELSE IF PrintRaises(BallotX) THEN MainHandlerLog(ErrEncode)
                       ELSE Log("error", "TVN data sync failed", FailureText(error)))
    /\ error' = IF error = NoError THEN error ELSE ExceptPrint(error)
    /\ pc' = "done"
    /\ UNCHANGED <<run2, cid, kind, stdout, start_arg, end_arg, start_date, end_date, data,
                   index, records_processed, conn, work, seen, db, clock, source, reading, pre, synced>>

\* the process ends; its memory and its connection are gone
Exit ==
    /\ pc = "done"
    /\ pc' = "idle"
    /\ start_arg' = NoArg /\ end_arg' = NoArg
    /\ start_date' = << >> /\ end_date' = << >>
    /\ data' = << >> /\ index' = 1 /\ records_processed' = 0 /\ error' = NoError
    /\ conn' = FALSE /\ work' = {} /\ seen' = {} /\ cid' = 0
    /\ trace' = << >>
    /\ pre' = db
    /\ UNCHANGED <<run2, kind, stdout, db, clock, source, reading, synced>>

\* time passes on the destination server; GETDATE() is read by the MERGE on
\* harvests alone, so the clock is advanced where it is read
Tick ==
    /\ pc = "insert" /\ kind = "harvest"
    /\ clock < MaxClock
    /\ clock' = clock + 1
    /\ UNCHANGED <<proc, run2, db, source, reading, pre, synced>>

\* between two runs the source comes to hold other rows
SourceChanges(rows) ==
    /\ pc = "idle"
    /\ rows # source
    /\ source' = rows
    /\ reading' = {}
    /\ synced' = "no"
    /\ UNCHANGED <<proc, run2, db, clock, pre>>

Next ==
    \/ \E args \in CliArgs, reads \in ClockReads :
           Main(args[1], args[2], reads[1], reads[2])
    \/ FetchApiData
    \/ GetSupabaseData
    \/ \E err \in SourceErrors(kind) : SourceUnavailable(err)
    \/ Connect
    \/ ConnectFails
    \/ InsertRow
    \/ MappingFails
    \/ ExecuteFails
    \/ Commit
    \/ CommitFails
    \/ WithExit
    \/ WithExitFails
    \/ \E delivery \in Deliveries, second \in Deliveries : ReportHarvest(delivery, second)
    \/ ReportTvn
    \/ Exit
    \/ Tick
    \/ \E rows \in Responses(kind) : SourceChanges(rows)

Spec == Init /\ [][Next]_vars

(***************************************************************************)
(* Runs over long batches, for the progress output of insert_data: the     *)
(* default window, a source that keeps its rows, a server clock that       *)
(* stands still.                                                           *)
(***************************************************************************)
InitProgress ==
    /\ pc = "idle"
    /\ kind \in Kinds
    /\ start_arg = NoArg /\ end_arg = NoArg
    /\ start_date = << >> /\ end_date = << >>
    /\ data = << >>
    /\ index = 1
    /\ records_processed = 0
    /\ error = NoError
    /\ conn = FALSE
    /\ work = {} /\ seen = {}
    /\ db \in InitialDb
    /\ clock = 0
    /\ source \in LongResponses(kind)
    /\ reading = {}
    /\ trace = << >>
    /\ pre = db
    /\ synced = "no"
    /\ cid = 0
    /\ pc2 = "off" /\ cid2 = 0 /\ data2 = << >> /\ index2 = 1 /\ work2 = {} /\ seen2 = {}
    /\ trace2 = << >>
    /\ stdout \in Encodings

NextProgress ==
    \/ \E reads \in ClockReads : Main(NoArg, NoArg, reads[1], reads[2])
    \/ FetchApiData
    \/ GetSupabaseData
    \/ \E err \in SourceErrors(kind) : SourceUnavailable(err)
    \/ Connect
    \/ ConnectFails
    \/ InsertRow
    \/ MappingFails
    \/ ExecuteFails
    \/ Commit
    \/ CommitFails
    \/ WithExit
    \/ WithExitFails
    \/ \E delivery \in Deliveries, second \in Deliveries : ReportHarvest(delivery, second)
    \/ ReportTvn
    \/ Exit

SpecProgress == InitProgress /\ [][NextProgress]_vars

(***************************************************************************)
(* Two invocations of the script at the same time, each a process of its   *)
(* own.  Of the second one the model follows the steps on the source and   *)
(* on the destination, from its fetch to its end: sync_data and            *)
(* insert_data without the window, the progress output and the texts of    *)
(* the log and the notification.  It prints to a stdout of its own, one    *)
(* that encodes the marks.  A transaction sees the table as it was when    *)
(* the transaction began and as its own statements have left it: what it   *)
(* would see of another connection's commit depends on the server, and the *)
(* MERGE of either script writes the same row whether it matches or not.   *)
(* The runs have the default window on a day that does not change between  *)
(* the reads of the date, and their notifications are delivered.  The      *)
(* first invocation can run again when it has ended.                       *)
(***************************************************************************)
Step2(calls, next) ==
    /\ trace2' = trace2 \o calls
    /\ pc2' = next

\* the fetch function returns the batch or raises (main.py 215, get_tvn.py 173)
Start2(rows, outcome) ==
    /\ pc2 = "off"
    /\ LET result == IF kind = "harvest" THEN fetch_api_data(rows)
                     ELSE get_supabase_data(rows, outcome)
       IN  /\ data2' = result.data
           /\ IF result.ok THEN Step2(<<Call("fetch")>>, "connect")
              ELSE Step2(<<Call("fetch"), Log("error", "fetch error", result.err)>>, "report")
    /\ UNCHANGED <<proc, db, clock, source, reading, pre, synced, cid2, index2, work2, seen2>>

\* the request raises
SourceUnavailable2 ==
    /\ pc2 = "off"
    /\ Step2(<<Call("fetch"), Log("error", "fetch error", ErrSource)>>, "report")
    /\ UNCHANGED <<proc, db, clock, source, reading, pre, synced, cid2, data2, index2, work2, seen2>>

\* with get_database_connection() as conn
Connect2 ==
    /\ pc2 = "connect"
    /\ cid2' = pyodbc_connect(HeldBy(cid))
    /\ work2' = db[TableOf(kind)]
    /\ seen2' = db[TableOf(kind)]
    /\ index2' = 1
    /\ Step2(<<Call("connect")>>, "insert")
    /\ UNCHANGED <<proc, db, clock, source, reading, pre, synced, data2>>

ConnectFails2 ==
    /\ pc2 = "connect"
    /\ Step2(<<Call("connect"), Log("error", "Database connection error", ErrConnect)>>,
             "report")
    /\ UNCHANGED <<proc, db, clock, source, reading, pre, synced, cid2, data2, index2, work2, seen2>>

\* the except clause of insert_data and the exit of the with block
Abort2(calls) ==
    /\ work2' = RolledBack(db[TableOf(kind)], work2)
    /\ Step2(calls \o <<Call("rollback"), Call("exit_rollback")>>, "report")
    /\ UNCHANGED <<proc, db, clock, source, reading, pre, synced, cid2, data2, index2, seen2>>

\* one iteration of the loop of insert_data, m the mapping of its row: the
\* row is mapped and its MERGE succeeds
InsertRow2(m) ==
    /\ m.ok
    /\ work2' = Merge(kind, work2, m.row, clock)
    /\ index2' = Advance(index2)
    /\ Step2(<<MergeCall(index2)>>, "insert")
    /\ UNCHANGED <<proc, db, clock, source, reading, pre, synced, cid2, data2, seen2>>

\* the mapping of the row raises
MappingFails2(m) ==
    /\ ~m.ok
    /\ Abort2(<< >>)

\* cursor.execute raises
ExecuteFails2(m) ==
    /\ m.ok
    /\ Abort2(<<MergeCall(index2)>>)

\* conn.commit() after the loop
Commit2 ==
    /\ pc2 = "insert" /\ LoopDone(index2, Len(data2))
    /\ \E tbl \in Committed(kind, db[TableOf(kind)], work2, KeysWritten(data2, index2 - 1), seen2) :
           db' = [db EXCEPT ![TableOf(kind)] = tbl]
    /\ Step2(<<Call("commit")>>, "with_exit")
    /\ UNCHANGED <<proc, clock, source, reading, pre, synced, cid2, data2, index2, work2, seen2>>

CommitFails2 ==
    /\ pc2 = "insert" /\ LoopDone(index2, Len(data2))
    /\ Abort2(<<Call("commit")>>)

\* the with block is left without an exception: the context manager commits,
\* and sync_data goes on to its report whether that commit raises or not
WithExit2 ==
    /\ pc2 = "with_exit"
    /\ Step2(<<Call("exit_commit")>>, "report")
    /\ UNCHANGED <<proc, db, clock, source, reading, pre, synced, cid2, data2, index2, work2, seen2>>

\* sync_data reports and the process ends; its memory and its connection are gone
Report2 ==
    /\ pc2 = "report"
    /\ pc2' = "over"
    /\ cid2' = 0 /\ data2' = << >> /\ index2' = 1 /\ work2' = {} /\ seen2' = {}
    /\ trace2' = << >>
    /\ UNCHANGED <<proc, db, clock, source, reading, pre, synced>>

InitTwo ==
    /\ pc = "idle"
    /\ kind \in Kinds
    /\ start_arg = NoArg /\ end_arg = NoArg
    /\ start_date = << >> /\ end_date = << >>
    /\ data = << >>
    /\ index = 1
    /\ records_processed = 0
    /\ error = NoError
    /\ conn = FALSE
    /\ work = {} /\ seen = {}
    /\ db \in InitialDb
    /\ clock = 0
    /\ source \in TwoRunResponses(kind, 100, 1)
    /\ reading = {}
    /\ trace = << >>
    /\ pre = db
    /\ synced = "no"
    /\ cid = 0
    /\ pc2 = "off" /\ cid2 = 0 /\ data2 = << >> /\ index2 = 1 /\ work2 = {} /\ seen2 = {}
    /\ trace2 = << >>
    /\ stdout \in Encodings

NextTwo ==
    \/ Main(NoArg, NoArg, Today, Today)
    \/ FetchApiData
    \/ GetSupabaseData
    \/ \E err \in SourceErrors(kind) : SourceUnavailable(err)
    \/ Connect
    \/ ConnectFails
    \/ InsertRow
    \/ MappingFails
    \/ ExecuteFails
    \/ Commit
    \/ CommitFails
    \/ WithExit
    \/ WithExitFails
    \/ ReportHarvest("sent", "sent")
    \/ ReportTvn
    \/ Exit
    \/ pc2 = "off" /\ \E rows \in TwoRunResponses(kind, 150, 2) :
           \E outcome \in ToDatetimeOutcomes(IF kind = "tvn" THEN rows ELSE << >>) :
               Start2(rows, outcome)
    \/ SourceUnavailable2
    \/ Connect2
    \/ ConnectFails2
    \/ /\ pc2 = "insert" /\ ~LoopDone(index2, Len(data2))
       /\ \E m \in {Params(kind, data2[index2])} :
              InsertRow2(m) \/ MappingFails2(m) \/ ExecuteFails2(m)
    \/ Commit2
    \/ CommitFails2
    \/ WithExit2
    \/ Report2

SpecTwo == InitTwo /\ [][NextTwo]_vars

(***************************************************************************)
(* Vocabulary of the properties.                                           *)
(***************************************************************************)
Table == db[TableOf(kind)]

PreTable == pre[TableOf(kind)]

OtherTable == IF kind = "harvest" THEN "tracefruit_harvest" ELSE "harvests"

Positions(op) == {i \in 1..Len(trace) : trace[i].op = op}

Count(op) == Cardinality(Positions(op))

LogPositions(text) == {i \in Positions("log") : trace[i].text = text}

\* sync_data was entered: it has resolved the window
InSync == start_date # << >>

\* a destination row without the column the server assigns
Stored(k, row) == IF k = "harvest" THEN Without(row, "insert_date") ELSE row

KeysIn(k, tbl) == {KeyOf(k, r) : r \in tbl}

UniqueBy(k, tbl) == \A r1 \in tbl, r2 \in tbl : KeyOf(k, r1) = KeyOf(k, r2) => r1 = r2

IsoPositions == {1, 2, 3, 4, 6, 7, 9, 10}

\* the text has the form YYYY-MM-DD
IsIsoDate(text) ==
    /\ Len(text) = 10
    /\ \A i \in IsoPositions : text[i] \in Digits
    /\ text[5] = "-" /\ text[8] = "-"

\* the date as YYYY-MM-DD
IsoText(d) ==
    Pad2(d[1] \div 100) \o Pad2(d[1] % 100) \o <<"-">> \o Pad2(d[2]) \o <<"-">> \o Pad2(d[3])

\* the timestamps and the times of day of the source rows as the destination
\* is to hold them, YYYY-MM-DD HH:MM:SS and HH:MM:SS, written out text by text
Canonical(text) ==
    IF text \in {TextStamp, TextStampShort}
    THEN <<"2", "0", "2", "4", "-", "0", "6", "-", "0", "1", " ",
           "0", "8", ":", "0", "0", ":", "0", "0">>
    ELSE IF text \in {TextHalfPastEight, TextHalfPastEightShort}
    THEN <<"0", "8", ":", "3", "0", ":", "0", "0">>
    ELSE IF text = TextFive THEN <<"1", "7", ":", "0", "0", ":", "0", "0">>
    ELSE << >>

\* the destination row, without insert_date, that a row of a fetched batch
\* is to leave: the fields of the row, its timestamp and times of day in
\* canonical form, the date of a daily total as YYYY-MM-DD
WantedRow(k, row) ==
    IF k = "harvest"
    THEN [id |-> row.id, farm |-> row.farm, plot |-> row.plot, produce |-> row.produce,
          worker |-> row.worker, unit |-> row.unit,
          harvest_date |-> Canonical(row.harvest_date),
          start_time |-> Canonical(row.start_time),
          end_time |-> Canonical(row.end_time),
          duration |-> row.duration, containers |-> row.containers,
          kgs_harvested |-> row.kgs_harvested]
    ELSE [date |-> IsoText(row.date), kgs_harvest_tvn |-> row.kgs_harvest_tvn,
          kgs_packed_cnd |-> row.kgs_packed_cnd]

\* the destination row the i-th row of the source is to leave: a daily total
\* carries the date of the source row as written when that is YYYY-MM-DD,
\* and the date the row was fetched as otherwise
WantedOfSource(i) ==
    IF kind = "harvest" THEN WantedRow(kind, source[i])
    ELSE [date |-> IF IsIsoDate(source[i].date) THEN source[i].date
                   ELSE IsoText(data[i].date),
          kgs_harvest_tvn |-> source[i].kilos_harvested,
          kgs_packed_cnd |-> source[i].kilos_packed]

\* the rows every row of the source is to leave
Wanted == [i \in 1..Len(source) |-> WantedOfSource(i)]

\* no later row has the key of row i
LastOfKey(wanted, i) ==
    \A j \in (i + 1)..Len(wanted) : KeyOf(kind, wanted[j]) # KeyOf(kind, wanted[i])

\* the mapping of every row of the batch
RECURSIVE MappingsOf(_)
MappingsOf(rows) ==
    IF rows = << >> THEN << >> ELSE <<Params(kind, Head(rows))>> \o MappingsOf(Tail(rows))

Mappings == MappingsOf(data)

FetchedKeys ==
    LET mappings == Mappings
    IN  {KeyOf(kind, mappings[i].row) : i \in {j \in 1..Len(data) : mappings[j].ok}}

\* insert_data raised while it was at row index: in the mapping or in the write
RowFailure ==
    pc \in {"report", "done"} /\ conn /\ error # NoError /\ index <= Len(data)

MappingFailure == RowFailure /\ ~Params(kind, data[index]).ok

Success == pc = "done" /\ InSync /\ error = NoError

FailedRun == pc = "done" /\ InSync /\ error # NoError

(***************************************************************************)
(* C1  Atomicity: when the mapping or the write of row k of a run fails,   *)
(* the destination is what it was before the run, and none of the rows     *)
(* 1..k-1 issued in the run is persisted or left staged.                   *)
(***************************************************************************)
C1_Atomicity == RowFailure => db = pre /\ work = PreTable

C1_Witness ==
    pc = "done" /\ RowFailure /\ index > 1 /\ Count("merge") >= 1 /\ db = pre

(***************************************************************************)
(* C2  Idempotence.  As claimed: a second committed insert_data with the   *)
(* same rows leaves the destination exactly as the first left it.          *)
(* As amended: it leaves the same rows with the same field values except   *)
(* insert_date of harvests, which the MERGE sets to GETDATE() again.       *)
(***************************************************************************)
Reapplied == pc = "insert" /\ pc' = "with_exit" /\ synced # "no"

C2_IdempotentExactly == [][Reapplied => db' = db]_vars

C2_IdempotentButInsertDate ==
    [][Reapplied =>
          /\ Cardinality(db'[TableOf(kind)]) = Cardinality(db[TableOf(kind)])
          /\ {Stored(kind, r) : r \in db'[TableOf(kind)]}
               = {Stored(kind, r) : r \in db[TableOf(kind)]}
          /\ db'[OtherTable] = db[OtherTable]]_vars

C2_Witness ==
    pc = "with_exit" /\ synced = "again" /\ kind = "harvest" /\ Len(data) >= 1 /\ db # pre

(***************************************************************************)
(* C3  Upsert correctness: after a successful sync every key of the source *)
(* rows has a destination row whose other fields are those of the (last)   *)
(* source row with that key; the row is new when the key was absent before *)
(* the run and overwritten when it was present, and no other row is added. *)
(***************************************************************************)
C3_UpsertCorrect ==
    Success =>
        LET wanted == Wanted
            keys == {KeyOf(kind, wanted[i]) : i \in 1..Len(source)}
        IN  /\ Len(data) = Len(source)
            /\ \A i \in 1..Len(source) :
                   LastOfKey(wanted, i) => \E r \in Table : Stored(kind, r) = wanted[i]
            /\ Cardinality(Table)
                 = Cardinality(PreTable) + Cardinality(keys \ KeysIn(kind, PreTable))

\* a row of the source has overwritten the row the destination held for its key
C3_Witness ==
    /\ Success
    /\ \E i \in 1..Len(source) :
           /\ KeyOf(kind, WantedOfSource(i)) \in KeysIn(kind, PreTable)
           /\ \A r \in PreTable : Stored(kind, r) # WantedOfSource(i)
           /\ \E r \in Table : Stored(kind, r) = WantedOfSource(i)

\* harvest H100 was absent and has been inserted
C3_WitnessInserted ==
    /\ Success /\ kind = "harvest"
    /\ "H100" \notin KeysIn(kind, PreTable)
    /\ \E r \in Table : r.id = "H100"

\* the daily total of 2024-06-01 has gone from 100 to 150
C3_WitnessOverwritten ==
    /\ Success /\ kind = "tvn"
    /\ \E r \in PreTable : r.date = TextDay1 /\ r.kgs_harvest_tvn = 100
    /\ \E r \in Table : r.date = TextDay1 /\ r.kgs_harvest_tvn = 150

(***************************************************************************)
(* C4  Key uniqueness: the destination, and the open transaction's view of *)
(* it, hold at most one row per key, also after a batch that repeats a     *)
(* key; the row then carries the values of the last row with that key.     *)
(***************************************************************************)
C4_KeyUniqueness ==
    /\ UniqueBy("harvest", db.harvests)
    /\ UniqueBy("tvn", db.tracefruit_harvest)
    /\ conn => UniqueBy(kind, work)
    /\ pc = "with_exit" =>
          LET wanted == Wanted
          IN  \A i \in 1..Len(source), j \in 1..Len(source) :
                  (/\ i < j
                   /\ KeyOf(kind, wanted[i]) = KeyOf(kind, wanted[j])
                   /\ LastOfKey(wanted, j))
                      => \A r \in Table :
                             KeyOf(kind, r) = KeyOf(kind, wanted[j])
                                 => Stored(kind, r) = wanted[j]

C4_Witness ==
    /\ pc = "with_exit"
    /\ \E i \in 1..Len(source), j \in 1..Len(source) :
           /\ i < j
           /\ KeyOf(kind, WantedOfSource(i)) = KeyOf(kind, WantedOfSource(j))
           /\ WantedOfSource(i) # WantedOfSource(j)

(***************************************************************************)
(* C5  Additivity: in every run, failed or not, a destination row whose    *)
(* key is not among the fetched rows stays as it was, no row is removed    *)
(* and the number of rows does not decrease.                               *)
(***************************************************************************)
C5_Additive ==
    /\ LET keys == FetchedKeys
       IN  \A r \in PreTable : r \in Table \/ KeyOf(kind, r) \in keys
    /\ KeysIn(kind, PreTable) \subseteq KeysIn(kind, Table)
    /\ Cardinality(Table) >= Cardinality(PreTable)
    /\ db[OtherTable] = pre[OtherTable]

C5_Witness ==
    /\ Success /\ Table # PreTable
    /\ \E r \in PreTable : KeyOf(kind, r) \notin FetchedKeys

(***************************************************************************)
(* C6  Notification exactly once: every run of sync_data, of either        *)
(* script, hands its outcome to the notification sink exactly once.        *)
(***************************************************************************)
C6_NotifiedOnce == (pc = "done" /\ InSync) => Count("notify") = 1

(***************************************************************************)
(* C7  Fail-fast mapping: when a row of a harvest batch fails              *)
(* normalization, no destination write has been attempted for the batch.   *)
(* It fails on a batch whose unusable row is not the first: insert_data    *)
(* maps and executes row by row, so the MERGEs of the rows before it have  *)
(* been issued when its mapping raises.                                    *)
(***************************************************************************)
C7_NoMergeIssued == (kind = "harvest" /\ MappingFailure) => Count("merge") = 0

(***************************************************************************)
(* C8  Stage-error propagation: after a failed stage no later stage runs   *)
(* (a failed fetch opens no connection and issues no write), an open       *)
(* transaction is rolled back before the failure is reported, and the      *)
(* reported outcome is a failure with the text of the error.  It fails on  *)
(* a stdout that cannot encode the ballot x: the except clause of          *)
(* sync_data raises at its print, no failure outcome is logged or          *)
(* notified, and main logs the error of the print as an invalid date.      *)
(***************************************************************************)
StageLogs == {"fetch error", "Database connection error", "Data insertion error"}

ReportLogs == {"Data sync failed", "TVN data sync failed"}

\* the texts the failing stages logged when they raised
StageErrors == {trace[i].detail : i \in {j \in Positions("log") : trace[j].text \in StageLogs}}

ReportPositions == {i \in Positions("log") : trace[i].text \in ReportLogs}

C8_StageErrorPropagation ==
    FailedRun =>
        /\ LogPositions("fetch error") # {} =>
               Count("connect") = 0 /\ ~conn /\ Count("merge") = 0 /\ Count("commit") = 0
        /\ LogPositions("Database connection error") # {} =>
               ~conn /\ Count("merge") = 0 /\ Count("commit") = 0
        /\ RowFailure =>
               /\ Count("commit") = 0 /\ Count("exit_commit") = 0
               /\ \A m \in Positions("merge") : trace[m].row <= index
        /\ error = ErrCommit => Count("exit_commit") = 0
        /\ Cardinality(StageErrors) <= 1
        /\ (conn /\ error # ErrExitCommit) =>
               \E p \in Positions("rollback") : \A q \in ReportPositions : p < q
        /\ work = (IF conn THEN Table ELSE {})
        /\ Cardinality(ReportPositions) = 1
        /\ \A q \in ReportPositions :
               /\ trace[q].level = "error"
               /\ trace[q].detail \in (IF StageErrors = {} THEN {ErrExitCommit} ELSE StageErrors)
        /\ \A n \in Positions("notify") :
               /\ ~trace[n].success
               /\ trace[n].error_message
                    \in (IF StageErrors = {} THEN {ErrExitCommit} ELSE StageErrors)

(***************************************************************************)
(* C9  Invalid window short-circuit: a --start-date or --end-date given in *)
(* another format than YYYY-MM-DD aborts the run before any fetch,         *)
(* connection or write.                                                    *)
(***************************************************************************)
BadFormat(a) == a.given /\ ~IsIsoDate(a.text)

C9_InvalidWindowAborts ==
    (BadFormat(start_arg) \/ BadFormat(end_arg)) =>
        /\ Count("fetch") = 0 /\ Count("connect") = 0 /\ Count("merge") = 0
        /\ ~conn

(***************************************************************************)
(* C10  Empty window: when the source returns zero rows no row operation   *)
(* is issued and the destination is unchanged; the empty result raises no  *)
(* error of its own, and a run that ends reports success with 0 rows.      *)
(* It fails on a stdout that cannot encode the check mark: the print after *)
(* the fetch (main.py) or after the connection (get_tvn.py) raises and the *)
(* run with the empty result ends as a failure.                            *)
(***************************************************************************)
\* the request of the fetch raised
RequestRaised ==
    \E i \in LogPositions("fetch error") : trace[i].detail \in SourceErrors(kind)

EmptyWindow == Count("fetch") = 1 /\ source = << >> /\ ~RequestRaised

C10_EmptyWindow ==
    EmptyWindow =>
        /\ data = << >>
        /\ Count("merge") = 0
        /\ db = pre
        /\ error \in {NoError, ErrConnect, ErrCommit, ErrExitCommit}
        /\ Success =>
              /\ \E i \in LogPositions("Successfully processed") : trace[i].detail = 0
              /\ kind = "harvest" =>
                    /\ Count("notify") = 1
                    /\ \A n \in Positions("notify") :
                           trace[n].success /\ trace[n].records_processed = 0

(***************************************************************************)
(* C11  Notification failure is contained: a failed delivery, or missing   *)
(* configuration, is logged and not raised; after a committed batch whose  *)
(* success notification is not delivered, no failure notification follows, *)
(* nothing is rolled back, the destination keeps the committed rows and    *)
(* nothing reaches the caller: a run that has handed an outcome to         *)
(* send_email_notification does not reach the handlers of main.            *)
(***************************************************************************)
MainHandlerTexts == {"Invalid date format", "Error in main"}

Escaped == \E i \in Positions("log") : trace[i].text \in MainHandlerTexts

C11_NotificationContained ==
    (pc = "done" /\ InSync /\ kind = "harvest") =>
        /\ \A n \in Positions("notify") :
               trace[n].delivery # "sent" =>
                   /\ Len(trace) = n + 1
                   /\ trace[n + 1] = DeliveryLog(trace[n].delivery)
        /\ Count("notify") >= 1 => ~Escaped
        /\ (\E n \in Positions("notify") : trace[n].success) =>
               /\ Count("notify") = 1
               /\ Count("commit") = 1
               /\ Count("rollback") = 0 /\ Count("exit_rollback") = 0
               /\ LogPositions("Data sync failed") = {}
               /\ error = NoError
               /\ Table = work

C11_Witness ==
    /\ pc = "done" /\ kind = "harvest"
    /\ Count("commit") = 1 /\ Table # PreTable
    /\ \E n \in Positions("notify") : trace[n].success /\ trace[n].delivery = "failed"
    /\ LogPositions("Failed to send email notification") # {}

(***************************************************************************)
(* C12  Default window: an omitted bound is replaced by the current date,  *)
(* a supplied bound is kept, with both bounds omitted the window is        *)
(* [today, today], and the fetch is issued with the resolved window.  It   *)
(* fails when the date changes between the two calls of date.today(): the  *)
(* window is then [today, tomorrow]; and the request carries a year below  *)
(* 1000 without its leading zeros.                                         *)
(***************************************************************************)
Omitted(a) == ~a.given \/ a.text = << >>

C12_DefaultWindow ==
    /\ InSync =>
          /\ Omitted(start_arg) => start_date \in {Today, NextDay(Today)}
          /\ Omitted(end_arg) => end_date \in {Today, NextDay(Today)}
          /\ (Omitted(start_arg) /\ Omitted(end_arg)) => start_date = end_date
          /\ ~Omitted(start_arg) => start_date = StrptimeDate(start_arg.text)
          /\ ~Omitted(end_arg) => end_date = StrptimeDate(end_arg.text)
    /\ \A f \in Positions("fetch") :
          /\ trace[f].dateStart = IsoText(start_date)
          /\ trace[f].dateEnd = IsoText(end_date)

(***************************************************************************)
(* C13  No automatic retry.  As claimed: in one run the fetch is issued at *)
(* most once, the operation of each row at most once and at most one       *)
(* commit is attempted; after a failure nothing is re-executed             *)
(* (C13_SingleCommit).  As the code has it: insert_data attempts at most   *)
(* one commit, and a run whose insert_data returned normally issues one    *)
(* more commit when the connection leaves the with block; that commit      *)
(* never follows a failure (C13_NoRetry).                                  *)
(***************************************************************************)
Reexecutable == {"fetch", "connect", "merge", "commit", "exit_commit"}

FailurePositions ==
    {i \in Positions("log") : trace[i].text \in StageLogs} \cup Positions("rollback")

C13_SingleCommit ==
    /\ Count("fetch") <= 1
    /\ \A i \in Positions("merge"), j \in Positions("merge") :
           trace[i].row = trace[j].row => i = j
    /\ Count("commit") + Count("exit_commit") <= 1
    /\ \A p \in FailurePositions :
           \A q \in (p + 1)..Len(trace) : trace[q].op \notin Reexecutable

C13_NoRetry ==
    /\ Count("fetch") <= 1 /\ Count("connect") <= 1
    /\ \A i \in Positions("merge"), j \in Positions("merge") :
           trace[i].row = trace[j].row => i = j
    /\ Count("commit") <= 1 /\ Count("exit_commit") <= 1
    /\ \A e \in Positions("exit_commit") :
           Count("rollback") = 0 /\ \E c \in Positions("commit") : c < e
    /\ \A p \in FailurePositions :
           \A q \in (p + 1)..Len(trace) : trace[q].op \notin Reexecutable

C13_Witness ==
    /\ FailedRun /\ RowFailure
    /\ Count("merge") >= 1 /\ Count("rollback") = 1 /\ index <= Len(data)
    /\ \A m \in Positions("merge") : trace[m].row <= index

(***************************************************************************)
(* C14  Commit discipline: insert_data commits only after the operation of *)
(* every row of the batch has succeeded, all rows are staged under the one *)
(* transaction of the run's connection and nothing is persisted before the *)
(* commit; when a row fails, rollback is issued, commit is not, and the    *)
(* error is raised to the caller after the rollback.                       *)
(***************************************************************************)
C14_CommitDiscipline ==
    /\ Count("connect") <= 1
    /\ \A c \in Positions("commit") :
           /\ \A k \in 1..Len(data) :
                  \E m \in Positions("merge") : m < c /\ trace[m].row = k
           /\ \A q \in 1..(c - 1) : trace[q].op # "rollback"
    /\ pc = "insert" => db = pre /\ Count("commit") = 0
    /\ RowFailure =>
           /\ Count("rollback") = 1 /\ Count("commit") = 0
           /\ db = pre
    /\ \A l \in LogPositions("Data insertion error") :
           /\ l > 1 /\ trace[l - 1].op = "rollback"
           /\ \A q \in ReportPositions : l < q

C14_Witness ==
    /\ pc = "done" /\ Len(data) >= 2
    /\ Count("commit") = 1 /\ Count("merge") = Len(data)
    /\ Table # PreTable

(***************************************************************************)
(* C16  Reported counts: a successful harvest sync hands the notification  *)
(* sink the number of rows fetched, which is the number of row operations  *)
(* committed in the run; a failed run hands it 0 when the fetch failed and *)
(* the number of rows fetched otherwise.                                   *)
(***************************************************************************)
FetchFailed == LogPositions("fetch error") # {}

C16_ReportedCounts ==
    (pc = "done" /\ InSync /\ kind = "harvest") =>
        \A n \in Positions("notify") :
            IF trace[n].success
            THEN /\ trace[n].records_processed = Len(source)
                 /\ trace[n].records_processed = Count("merge")
                 /\ Count("commit") = 1
                 /\ \A c \in Positions("commit") :
                        Cardinality({m \in Positions("merge") : m < c})
                            = trace[n].records_processed
            ELSE trace[n].records_processed = (IF FetchFailed THEN 0 ELSE Len(source))

C16_Witness ==
    /\ pc = "done" /\ kind = "harvest" /\ Len(source) = 2
    /\ \E n \in Positions("notify") : trace[n].success /\ trace[n].records_processed = 2

C16_WitnessFailed ==
    /\ pc = "done" /\ kind = "harvest" /\ Len(source) = 2 /\ ~FetchFailed
    /\ \E n \in Positions("notify") : ~trace[n].success /\ trace[n].records_processed = 2

(***************************************************************************)
(* C17  Transaction exclusivity: a run acquires one connection, after its  *)
(* fetch has succeeded, and issues its row operations, its commit and its  *)
(* rollback on it; two runs, one after the other or at the same time,      *)
(* never hold the same connection; the rows a commit makes persistent are  *)
(* rows of the committing run's own batch, the rows it replaces have keys  *)
(* of that batch, and no other step changes the destination.               *)
(***************************************************************************)
OnConnection == {"merge", "commit", "rollback", "exit_commit", "exit_rollback"}

PositionsIn(calls, op) == {i \in 1..Len(calls) : calls[i].op = op}

\* the calls of one run: one connect at most, after a fetch that did not
\* fail, and before every call on the connection
OneConnection(calls) ==
    /\ Cardinality(PositionsIn(calls, "connect")) <= 1
    /\ \A c \in PositionsIn(calls, "connect") :
           /\ \A l \in PositionsIn(calls, "log") : l < c => calls[l].text # "fetch error"
           /\ \E f \in PositionsIn(calls, "fetch") : f < c
    /\ \A q \in 1..Len(calls) :
           calls[q].op \in OnConnection => \E c \in PositionsIn(calls, "connect") : c < q

\* a run holds a connection from its connect on, and no two runs hold the same
ConnectionsApart ==
    /\ conn <=> cid \in ConnIds
    /\ cid # 0 => PositionsIn(trace, "connect") # {}
    /\ cid2 # 0 <=> (pc2 # "over" /\ \E c \in PositionsIn(trace2, "connect") :
                                        c = Len(trace2) \/ trace2[c + 1].op # "log")
    /\ (cid # 0 /\ cid2 # 0) => cid # cid2

\* the step appends a commit to the calls
Commits(before, after) ==
    Cardinality(PositionsIn(after, "commit")) > Cardinality(PositionsIn(before, "commit"))

\* the rows the step adds to the destination table are rows of the batch, and
\* the rows it takes from the table have keys of the batch
CommitsOwnRows(batch) ==
    /\ \A r \in db'[TableOf(kind)] \ db[TableOf(kind)] :
           \E i \in 1..Len(batch) : Stored(kind, r) = WantedRow(kind, batch[i])
    /\ \A r \in db[TableOf(kind)] \ db'[TableOf(kind)] :
           \E i \in 1..Len(batch) : KeyOf(kind, r) = KeyOf(kind, WantedRow(kind, batch[i]))
    /\ db'[OtherTable] = db[OtherTable]

C17_TransactionExclusive ==
    [][/\ OneConnection(trace') /\ OneConnection(trace2') /\ ConnectionsApart'
       /\ Commits(trace, trace') => CommitsOwnRows(data)
       /\ Commits(trace2, trace2') => CommitsOwnRows(data2)
       /\ (~Commits(trace, trace') /\ ~Commits(trace2, trace2')) => db' = db]_vars

\* both invocations held a connection at the same time with a batch of two
\* rows each, both wrote the same key, and both committed: the destination
\* holds a row of each
C17_Witness ==
    /\ pc = "with_exit" /\ pc2 = "with_exit"
    /\ cid # 0 /\ cid2 # 0
    /\ Len(data) = 2 /\ Len(data2) = 2
    /\ \E i \in 1..2, j \in 1..2 :
           KeyOf(kind, WantedRow(kind, data[i])) = KeyOf(kind, WantedRow(kind, data2[j]))
    /\ \E r \in Table : Stored(kind, r) = WantedRow(kind, data[2])
    /\ \E r \in Table : Stored(kind, r) = WantedRow(kind, data2[2])

\* the first invocation rolled back at its second row while the second
\* invocation committed: no row of the first one's batch is in the destination
C17_WitnessRolledBack ==
    /\ pc = "report" /\ Count("rollback") = 1 /\ Count("merge") = 1 /\ Len(data) = 2
    /\ pc2 = "with_exit" /\ Len(data2) >= 1
    /\ Table # PreTable
    /\ \A r \in Table : Stored(kind, r) # WantedRow(kind, data[1])

(***************************************************************************)
(* C18  Outcome matches destination state: a harvest sync reports success  *)
(* only when the batch was committed and failure only when it was not, the *)
(* destination then being as before the run.                               *)
(***************************************************************************)
C18_OutcomeMatchesState ==
    (pc = "done" /\ InSync /\ kind = "harvest") =>
        \A n \in Positions("notify") :
            IF trace[n].success
            THEN Count("commit") = 1 /\ Count("rollback") = 0 /\ Table = work
            ELSE db = pre

(***************************************************************************)
(* C19  A run of sync_data returns normally whatever stage fails: every    *)
(* run that has entered sync_data ends with sync_data's own outcome record *)
(* and the handlers of main are reached by date parsing only.  It fails on *)
(* a stdout that cannot encode the ballot x: the print of the except       *)
(* clause raises and the error leaves sync_data for the handlers of main.  *)
(***************************************************************************)
OutcomeLogs ==
    {"Data sync completed successfully", "Data sync failed",
     "TVN data sync completed successfully", "TVN data sync failed"}

C19_ReturnsNormally ==
    /\ Escaped => ~InSync /\ Len(trace) = 1 /\ Count("fetch") = 0
    /\ (pc = "done" /\ InSync) =>
          Cardinality({i \in Positions("log") : trace[i].text \in OutcomeLogs}) = 1

(***************************************************************************)
(* C15  Progress signal: in one call of insert_data the progress values    *)
(* emitted increase, each lies between 0% and 100%, every 10 consecutive   *)
(* rows processed contain a row at which progress is emitted, and the rows *)
(* written are rows 1, 2, ... in order whatever was emitted.               *)
(***************************************************************************)
C15_ProgressSignal ==
    /\ \A p \in Positions("progress") :
           /\ trace[p].percent_den = Len(data) /\ trace[p].percent_den >= 1
           /\ 0 <= trace[p].percent_num
           /\ trace[p].percent_num <= 100 * trace[p].percent_den
           /\ trace[p].row <= index
    /\ \A p \in Positions("progress"), q \in Positions("progress") :
           p < q => trace[p].percent_num * trace[q].percent_den
                      < trace[q].percent_num * trace[p].percent_den
    /\ \A k \in 1..(Count("merge") - 9) :
           \E p \in Positions("progress") : trace[p].row \in k..(k + 9)
    /\ \A m \in Positions("merge") :
           trace[m].row = Cardinality({q \in Positions("merge") : q <= m})
    /\ pc = "with_exit" => Count("merge") = Len(data) /\ Count("commit") = 1

C15_Witness ==
    /\ pc = "with_exit" /\ Len(data) >= 20
    /\ Count("merge") = Len(data)
    /\ Count("progress") >= 2

====
